---------------------------- MODULE Spec2Model ----------------------------
(***************************************************************************)
(* A model of the container library of Opyn.py: the open-addressing hash   *)
(* map (comp/arrays.py), the dynamic-array stack and the linked stack and  *)
(* queue (comp/collections.py, comp/linkedlists.py) and the static-array   *)
(* queue (dev/datatypes/queues.py).                                        *)
(*                                                                         *)
(* Every container has its own group of variables and its own             *)
(* specification; a specification leaves the other groups unchanged.       *)
(***************************************************************************)
EXTENDS Integers, Sequences, FiniteSets, TLC

VARIABLES
    \* ArrayHashMap (comp/arrays.py)
    table,      \* self._table: slot number -> slot content
    size,       \* self._size
    max_size,   \* self._max_size
    hung,       \* TRUE once a call has entered a probe loop that never exits
    ref,        \* the history of completed calls as an abstract map: key -> value or NoValue
    rehashLog,  \* when the last set or delete call ran _rehash: the table and
                \* the size that _rehash found
    observed,   \* the last lookup of the insertion scenario: key, answer, and the
                \* number of keys inserted before it
    \* DynamicArray of an ArrayStack (comp/arrays.py, comp/collections.py)
    items,          \* DynamicArray._items: index -> item or NoValue
    effective_size, \* DynamicArray._effective_size
    stack_size,     \* ArrayStack._size
    \* LinkedList of a LinkedStack or LinkedQueue (comp/linkedlists.py)
    nodes,      \* the _Node objects made so far: node -> [item, next, prev]
    left,       \* LinkedList._left (0 is None)
    right,      \* LinkedList._right (0 is None)
    list_size,  \* LinkedList._size
    \* BoundedQueue (dev/datatypes/queues.py)
    bq_items,   \* BoundedQueue._items: the StaticArray's list
    bq_size,    \* BoundedQueue._size
    \* the history of the calls on a stack or queue
    adds,       \* the push or enqueue calls that returned
    removes,    \* the pop or dequeue calls that returned
    contents,   \* the items added and not yet removed, oldest first; under
                \* insert and remove at an index, the reference sequence
    raised,     \* TRUE when the last call raised an exception
    \* BoundedStack (dev/datatypes/stacks.py)
    bs_items,   \* BoundedStack._items: the StaticArray's list
    bs_size,    \* BoundedStack._size
    \* DequeStack (dev/datatypes/stacks.py)
    ds_items,   \* DequeStack._items: the deque
    ds_size,    \* DequeStack._size
    \* MaxPriorityQueue (comp/collections.py)
    pq_items,   \* MaxPriorityQueue._items: the dict from a priority to its deque
    pq_call,    \* the last call on the MaxPriorityQueue: its name and arguments,
                \* _items before it, and what it returned
    \* HashSet (comp/arrays.py) and ArraySet (comp/collections.py)
    set_left,   \* a set: a HashSet's _elements or an ArraySet's _elements and _size
    set_right,  \* a second set of the same class
    set_ref,    \* the elements added to set_left and not removed since
    set_call,   \* the call that made this state, when it was a remove or an
                \* operator: its name, its element, set_left before it, and how
                \* it ended
    set_hung,   \* TRUE once a call on the sets never returns
    \* StaticArray (comp/arrays.py)
    sa_items,   \* StaticArray._items
    \* BoundedSequence, ArraySequence, LinkedSequence (dev/datatypes)
    seq_left,   \* a sequence: its class, its _items and its _size
    seq_right,  \* a second sequence of the same class
    \* BoundedCircularQueue (dev/datatypes/queues.py)
    cq,         \* its _items (the StaticArray's list), _size, _start and _end
    \* the last call on a LinkedList, a StaticArray, a DynamicArray or a sequence
    last_call   \* its name and arguments, the object before it, and how it ended

mapVars == <<table, size, max_size, hung, ref, rehashLog>>

arrayStackVars == <<items, effective_size, stack_size>>

listVars == <<nodes, left, right, list_size>>

boundedQueueVars == <<bq_items, bq_size>>

historyVars == <<adds, removes, contents, raised>>

boundedStackVars == <<bs_items, bs_size>>

dequeStackVars == <<ds_items, ds_size>>

\* The objects of the other containers.
priorityQueueVars == <<pq_items, pq_call>>

setVars == <<set_left, set_right, set_ref, set_call, set_hung>>

staticArrayVars == <<sa_items>>

sequenceVars == <<seq_left, seq_right>>

circularQueueVars == <<cq>>

otherVars ==
    <<boundedStackVars, dequeStackVars, priorityQueueVars, setVars, staticArrayVars,
      sequenceVars, circularQueueVars, last_call>>

vars == <<mapVars, observed, arrayStackVars, listVars, boundedQueueVars, historyVars,
          otherVars>>

\* What a map call leaves alone.
notMap == <<arrayStackVars, listVars, boundedQueueVars, historyVars, otherVars>>

-----------------------------------------------------------------------------
(* Bounds of the model                                                     *)

\* The values are 1 .. NumValues.
NumValues == 2

\* The keys: five, the number of keys that fills a table of 7 slots up to its
\* threshold.  In a table of 7 slots they have the home slots 1, 2, 4, 1, 2,
\* in a table of 15 slots the home slots 1, 2, 4, 8, 1, so probe sequences
\* collide in both.
Keys == {1, 2, 4, 8, 16}

Values == 1..NumValues

-----------------------------------------------------------------------------
(* ArrayHashMap: slots                                                     *)

\* The key and the value of a slot that holds none (Python's None).
NoValue == 0

\* _UNUSED: a slot that never held an entry.
UNUSED == [tag |-> "unused", key |-> 0, value |-> NoValue]

\* _EMPTY: the shared entry that marks a deleted slot.
EMPTY == [tag |-> "empty", key |-> 0, value |-> NoValue]

\* _MapEntry(key, value)
MapEntry(key, value) == [tag |-> "entry", key |-> key, value |-> value]

\* len(self._table)
TableLen(t) == Cardinality(DOMAIN t)

\* [None] * n
NewTable(n) == [i \in 0..(n - 1) |-> UNUSED]

\* abs(x)
Abs(x) == IF x < 0 THEN 0 - x ELSE x

\* hash(key) of a Python int that is not negative and below 2^61 - 1
Hash(key) == key

\* None as a key.  hash(None) comes from the address of the None object and
\* differs from run to run; the key None of a run with hash(None) = h is
\* written 0 - h, so that Abs(Hash(0 - h)) = h.
NoneHashes == {3, 5, 11}

NoneKey(h) == 0 - h

\* key is None: the key of the shared entry _EMPTY, or None given as a key
IsNone(key) == key <= NoValue

\* _key_hash: the home slot
KeyHash(t, key) == Abs(Hash(key)) % TableLen(t)

\* _probe_hash: the step of the probe sequence
ProbeHash(t, key) == 1 + (Abs(Hash(key)) % (TableLen(t) - 2))

\* What a probe loop gives when it leaves through `while` without `return`.
NoneSlot == 0 - 1

\* What a probe loop gives when it never leaves.
Diverges == 0 - 2

\* The while loop of _search, from its n-th probe.  The probe sequence
\* repeats after at most len(table) probes and the loop changes nothing, so a
\* loop that has not left after len(table) probes never leaves.
RECURSIVE SearchLoop(_, _, _, _, _)
SearchLoop(t, key, slot, step, n) ==
    IF n >= TableLen(t) THEN Diverges
    ELSE IF t[slot] = UNUSED THEN NoneSlot
    ELSE IF t[slot] # EMPTY /\ t[slot].key = key THEN slot
    ELSE SearchLoop(t, key, (slot + step) % TableLen(t), step, n + 1)

\* _search
Search(t, key) == SearchLoop(t, key, KeyHash(t, key), ProbeHash(t, key), 0)

\* The while loop of _insertion_search, from its n-th probe.
RECURSIVE InsertionLoop(_, _, _, _)
InsertionLoop(t, slot, step, n) ==
    IF n >= TableLen(t) THEN Diverges
    ELSE IF t[slot] = EMPTY \/ t[slot] = UNUSED THEN slot
    ELSE InsertionLoop(t, (slot + step) % TableLen(t), step, n + 1)

\* A mutant of _insertion_search: the home slot is taken without probing.
InsertionSearchNoProbe(t, key) == KeyHash(t, key)

\* _insertion_search
InsertionSearch(t, key) == InsertionLoop(t, KeyHash(t, key), ProbeHash(t, key), 0)

\* The for loop of _rehash over the original table from slot i; acc is the
\* new table, the size and whether an insertion search never left.
RECURSIVE RehashLoop(_, _, _)
RehashLoop(original, i, acc) ==
    IF i >= TableLen(original) \/ acc.hung THEN acc
    ELSE IF original[i] # UNUSED /\ original[i] # EMPTY
         THEN LET slot == InsertionSearch(acc.table, original[i].key)
              IN  IF slot = Diverges
                  THEN [acc EXCEPT !.hung = TRUE]
                  ELSE RehashLoop(original, i + 1,
                         [acc EXCEPT !.table = [acc.table EXCEPT ![slot] = original[i]],
                                     !.size = acc.size + 1])
         ELSE RehashLoop(original, i + 1, acc)

\* A mutant of _rehash: the new table has twice the slots, not twice plus one.
RehashDoubled(t) ==
    LET new_max_size == TableLen(t) * 2
        done == RehashLoop(t, 0, [table |-> NewTable(new_max_size), size |-> 0, hung |-> FALSE])
    IN  [table |-> done.table, size |-> done.size, max_size |-> new_max_size,
         hung |-> done.hung]

\* _rehash: the table, the size and the threshold it leaves.
Rehash(t) ==
    LET new_max_size == (TableLen(t) * 2) + 1
        done == RehashLoop(t, 0, [table |-> NewTable(new_max_size), size |-> 0, hung |-> FALSE])
    IN  [table |-> done.table, size |-> done.size, max_size |-> new_max_size,
         hung |-> done.hung]

\* A mutant of the overwriting branch of __setitem__: the value is not stored.
OverwriteNothing(t, slot, value) == t

\* self._table[self._search(key)].value = value
Overwrite(t, slot, value) == [t EXCEPT ![slot].value = value]

\* __contains__: "True", "False", or "diverges" when the search never returns
Contains(t, key) ==
    LET s == Search(t, key)
    IN  IF s = Diverges THEN "diverges" ELSE IF s # NoneSlot THEN "True" ELSE "False"

\* What __getitem__ and __delitem__ give when their assertion fails.
AssertionError == 0 - 1

\* __getitem__: the value, AssertionError, or Diverges
GetItem(t, key) ==
    LET s == Search(t, key)
    IN  IF s = Diverges THEN Diverges
        ELSE IF s = NoneSlot THEN AssertionError
        ELSE t[s].value

\* The keys stored in the table, as _MapIterator would meet them.
StoredKeys(t) == {t[i].key : i \in {j \in DOMAIN t : t[j].tag = "entry"}}

\* The slots that hold the key.
SlotsOf(t, key) == {i \in DOMAIN t : t[i].tag = "entry" /\ t[i].key = key}

\* The key/value pairs stored in the table.
StoredPairs(t) == {<<t[i].key, t[i].value>> : i \in {j \in DOMAIN t : t[j].tag = "entry"}}

NoRehash == [on |-> FALSE, pre |-> <<>>, preSize |-> 0]

NotObserved == [key |-> 0, value |-> NoValue, after |-> 0]

\* The containers a specification does not use stay as constructed.
ArrayStackIdle ==
    /\ items = <<>>
    /\ effective_size = 0
    /\ stack_size = 0

ListIdle ==
    /\ nodes = <<>>
    /\ left = 0
    /\ right = 0
    /\ list_size = 0

BoundedQueueIdle ==
    /\ bq_items = <<>>
    /\ bq_size = 0

BoundedStackIdle ==
    /\ bs_items = <<>>
    /\ bs_size = 0

DequeStackIdle ==
    /\ ds_items = <<>>
    /\ ds_size = 0

\* No call has been made on the MaxPriorityQueue.
NoCall == [name |-> "none", item |-> NoValue, old_priority |-> 0, new_priority |-> 0,
           before |-> <<>>, returned |-> [type |-> "none", value |-> <<>>]]

PriorityQueueIdle ==
    /\ pq_items = <<>>
    /\ pq_call = NoCall

\* The last call on the sets was no remove and no operator.
NoSetCall ==
    [name |-> "none", element |-> 0, before |-> <<>>, members |-> {}, outcome |-> "none"]

SetsIdle ==
    /\ set_left = <<>>
    /\ set_right = <<>>
    /\ set_ref = {}
    /\ set_call = NoSetCall
    /\ set_hung = FALSE

StaticArrayIdle == sa_items = <<>>

SequencesIdle ==
    /\ seq_left = <<>>
    /\ seq_right = <<>>

CircularQueueIdle == cq = <<>>

\* No call has been made.
NoLastCall ==
    [name |-> "none", index |-> 0, item |-> 0, before |-> <<>>, outcome |-> "none",
     value |-> 0]

\* No StaticArray and no sequence has been constructed, and no call made.
RestIdle ==
    /\ StaticArrayIdle
    /\ SequencesIdle
    /\ CircularQueueIdle
    /\ last_call = NoLastCall

\* No other container has been constructed.
OthersIdle ==
    /\ BoundedStackIdle
    /\ DequeStackIdle
    /\ PriorityQueueIdle
    /\ SetsIdle
    /\ RestIdle

HistoryInit ==
    /\ adds = 0
    /\ removes = 0
    /\ contents = <<>>
    /\ raised = FALSE

\* ArrayHashMap.__init__, for calls with keys from the set K
MapInit(K) ==
    /\ table = NewTable(7)
    /\ size = 0
    /\ max_size = 7 - (7 \div 3)
    /\ hung = FALSE
    /\ ref = [k \in K |-> NoValue]
    /\ rehashLog = NoRehash

\* A call whose probe loop never exits: nothing else ever runs.
Hang ==
    /\ hung' = TRUE
    /\ UNCHANGED <<table, size, max_size, ref, rehashLog, notMap>>

\* __setitem__: map[key] = value
MapSet(key, value) ==
    /\ ~hung
    /\ LET s == Search(table, key)
       IN  IF s = Diverges THEN Hang
           ELSE IF s # NoneSlot
           THEN /\ table' = Overwrite(table, s, value)
                /\ ref' = [ref EXCEPT ![key] = value]
                /\ rehashLog' = NoRehash
                /\ UNCHANGED <<size, max_size, hung, notMap>>
           ELSE LET slot == InsertionSearch(table, key)
                    inserted == [table EXCEPT ![slot] = MapEntry(key, value)]
                IN  IF slot = Diverges THEN Hang
                    ELSE IF size + 1 = max_size
                    THEN LET r == Rehash(inserted)
                         IN  /\ table' = r.table
                             /\ size' = r.size
                             /\ max_size' = r.max_size
                             /\ hung' = r.hung
                             /\ ref' = IF r.hung THEN ref ELSE [ref EXCEPT ![key] = value]
                             /\ rehashLog' = [on |-> TRUE, pre |-> inserted,
                                              preSize |-> size + 1]
                             /\ UNCHANGED notMap
                    ELSE /\ table' = inserted
                         /\ size' = size + 1
                         /\ ref' = [ref EXCEPT ![key] = value]
                         /\ rehashLog' = NoRehash
                         /\ UNCHANGED <<max_size, hung, notMap>>

\* __delitem__: del map[key]
MapDelete(key) ==
    /\ ~hung
    /\ LET s == Search(table, key)
       IN  IF s = Diverges THEN Hang
           ELSE IF s = NoneSlot
           THEN \* the assertion fails
                UNCHANGED <<mapVars, notMap>>
           ELSE /\ table' = [table EXCEPT ![s] = EMPTY]
                /\ size' = size - 1
                /\ ref' = [ref EXCEPT ![key] = NoValue]
                /\ rehashLog' = NoRehash
                /\ UNCHANGED <<max_size, hung, notMap>>

\* __contains__: key in map
MapContains(key) ==
    /\ ~hung
    /\ IF Contains(table, key) = "diverges" THEN Hang ELSE UNCHANGED <<mapVars, notMap>>

\* __getitem__: map[key]
MapGet(key) ==
    /\ ~hung
    /\ IF GetItem(table, key) = Diverges THEN Hang ELSE UNCHANGED <<mapVars, notMap>>

Init ==
    /\ MapInit(Keys)
    /\ observed = NotObserved
    /\ ArrayStackIdle
    /\ ListIdle
    /\ BoundedQueueIdle
    /\ HistoryInit
    /\ OthersIdle

Next ==
    \/ \E key \in Keys, value \in Values : MapSet(key, value) /\ UNCHANGED observed
    \/ \E key \in Keys : MapDelete(key) /\ UNCHANGED observed
    \/ \E key \in Keys : MapContains(key) /\ UNCHANGED observed
    \/ \E key \in Keys : MapGet(key) /\ UNCHANGED observed

\* Any sequence of set, delete, contains and get calls on one ArrayHashMap.
Spec == Init /\ [][Next]_vars

\* An ArrayHashMap whose keys are 1, 2 and None.
MapNoneKeyInit ==
    /\ \E h \in NoneHashes : MapInit({1, 2, NoneKey(h)})
    /\ observed = NotObserved
    /\ ArrayStackIdle
    /\ ListIdle
    /\ BoundedQueueIdle
    /\ HistoryInit
    /\ OthersIdle

MapNoneKeyNext ==
    \/ \E key \in DOMAIN ref, value \in Values : MapSet(key, value) /\ UNCHANGED observed
    \/ \E key \in DOMAIN ref : MapDelete(key) /\ UNCHANGED observed

\* Any sequence of set and delete calls with the keys 1, 2 and None.
SpecMapNoneKey == MapNoneKeyInit /\ [][MapNoneKeyNext]_vars

-----------------------------------------------------------------------------
(* ArrayHashMap: inserting the keys 1 .. ScenarioLast in order             *)

\* The last key of the scenario.
ScenarioLast == 20

ScenarioKeys == 1..ScenarioLast

\* The value the scenario stores under a key.
ScenarioValue(key) == 100 + key

\* The keys inserted so far.
Inserted == {k \in DOMAIN ref : ref[k] # NoValue}

ScenarioInit ==
    /\ MapInit(ScenarioKeys)
    /\ observed = NotObserved
    /\ ArrayStackIdle
    /\ ListIdle
    /\ BoundedQueueIdle
    /\ HistoryInit
    /\ OthersIdle

\* map[k] = value for the next key of the scenario
ScenarioInsert ==
    \E key \in ScenarioKeys :
        /\ key = Cardinality(Inserted) + 1
        /\ MapSet(key, ScenarioValue(key))
        /\ UNCHANGED observed

\* map[key] for a key inserted so far, between two insertions
ScenarioGet ==
    \E key \in Inserted :
        /\ MapGet(key)
        /\ observed' = [key |-> key, value |-> GetItem(table, key),
                        after |-> Cardinality(Inserted)]

ScenarioNext == ScenarioInsert \/ ScenarioGet

SpecScenario == ScenarioInit /\ [][ScenarioNext]_vars

-----------------------------------------------------------------------------
(* DynamicArray and ArrayStack                                             *)

\* The items that are not None are 1 .. NumItems.
NumItems == 2

Items == 1..NumItems

\* A push is any object, None included.
AnyItem == Items \cup {NoValue}

\* The pushes of a run: each push that returns counts.
MaxPushes == 6

\* len(arr)
ArrayLen(its) == Cardinality(DOMAIN its)

\* [None] * n
NewList(n) == [i \in 0..(n - 1) |-> NoValue]

\* math.log(n, 2).is_integer() for 1 <= n < 2^29, where the quotient of the
\* two logarithms is exact for the powers of two
RECURSIVE IsPowerOfTwo(_)
IsPowerOfTwo(n) ==
    IF n = 1 THEN TRUE
    ELSE IF n < 1 \/ n % 2 = 1 THEN FALSE
    ELSE IsPowerOfTwo(n \div 2)

\* int(2 ** (math.log(n, 2) + 1)) in double arithmetic, for 1 <= n < 25: the
\* power falls just below 2 * n for n in {5, 9, 14, 18, 19}
FloatDouble(n) == IF n \in {5, 9, 14, 18, 19} THEN (2 * n) - 1 ELSE 2 * n

\* needs_resize, for an array of length >= 1
NeedsResize(its, eff) ==
    IF eff = 0 THEN TRUE
    ELSE IsPowerOfTwo(eff) \/ eff >= ArrayLen(its) \/ eff = 0

\* arr.fill of an array of length 0: the division raises.
ZeroDivisionError == 0 - 1

\* needs_capacity; arr.fill is effective_size / len(arr)
NeedsCapacity(its, eff) ==
    IF ArrayLen(its) = 0 THEN ZeroDivisionError
    ELSE IF eff >= ArrayLen(its) THEN ArrayLen(its) * 2
    ELSE IF eff = 0 THEN 1
    ELSE IF eff # 1 THEN FloatDouble(eff)
    ELSE ArrayLen(its)

\* DynamicArray.resize: the new list, and whether the copy raised IndexError
\* (self[index] past the old list, alist[index] past the new one)
ArrayResize(its, eff, capacity) ==
    IF eff > ArrayLen(its) \/ eff > capacity
    THEN [items |-> its, raised |-> TRUE]
    ELSE [items |-> [i \in 0..(capacity - 1) |-> IF i < eff THEN its[i] ELSE NoValue],
          raised |-> FALSE]

\* A mutant of DynamicArray.__setitem__: the effective size is not kept.
ArraySetItemNoCount(its, eff, index, item) ==
    IF index < 0 \/ index >= ArrayLen(its)
    THEN [items |-> its, eff |-> eff, raised |-> TRUE]
    ELSE [items |-> [its EXCEPT ![index] = item], eff |-> eff, raised |-> FALSE]

\* DynamicArray.__setitem__ (and __delitem__, with item None)
ArraySetItem(its, eff, index, item) ==
    IF index < 0 \/ index >= ArrayLen(its)
    THEN [items |-> its, eff |-> eff, raised |-> TRUE]
    ELSE [items |-> [its EXCEPT ![index] = item],
          eff |-> IF its[index] = NoValue /\ item = NoValue THEN eff
                  ELSE IF its[index] = NoValue THEN eff + 1
                  ELSE IF item = NoValue THEN eff - 1
                  ELSE eff,
          raised |-> FALSE]

\* What a call gives when it raises IndexError.
IndexError == 0 - 1

\* ArrayStack.peek: self._dynarr[len(self) - 1]
ArrayPeek ==
    IF stack_size - 1 < 0 \/ stack_size - 1 >= ArrayLen(items)
    THEN IndexError
    ELSE items[stack_size - 1]

\* What an ArrayStack call leaves alone.
notArrayStack == <<mapVars, observed, listVars, boundedQueueVars, otherVars>>

\* DynamicArray.__init__ and ArrayStack.__init__
ArrayStackInit ==
    /\ items = NewList(1)
    /\ effective_size = 0
    /\ stack_size = 0

\* ArrayStack.push
ArrayPush(item) ==
    /\ adds < MaxPushes
    /\ LET resized == IF NeedsResize(items, effective_size)
                      THEN ArrayResize(items, effective_size,
                                       NeedsCapacity(items, effective_size))
                      ELSE [items |-> items, raised |-> FALSE]
           stored == ArraySetItem(resized.items, effective_size, stack_size, item)
       IN  IF resized.raised \/ stored.raised
           THEN /\ items' = resized.items
                /\ raised' = TRUE
                /\ UNCHANGED <<effective_size, stack_size, adds, removes, contents>>
           ELSE /\ items' = stored.items
                /\ effective_size' = stored.eff
                /\ stack_size' = stack_size + 1
                /\ adds' = adds + 1
                /\ contents' = Append(contents, item)
                /\ raised' = FALSE
                /\ UNCHANGED removes
    /\ UNCHANGED notArrayStack

\* ArrayStack.pop, called on a stack that holds an item
ArrayPop ==
    /\ contents # <<>>
    /\ LET cleared == ArraySetItem(items, effective_size, stack_size - 1, NoValue)
           resized == IF NeedsResize(cleared.items, cleared.eff)
                      THEN ArrayResize(cleared.items, cleared.eff,
                                       NeedsCapacity(cleared.items, cleared.eff))
                      ELSE [items |-> cleared.items, raised |-> FALSE]
       IN  IF cleared.raised
           THEN /\ raised' = TRUE
                /\ UNCHANGED <<items, effective_size, stack_size, adds, removes, contents>>
           ELSE /\ items' = resized.items
                /\ effective_size' = cleared.eff
                /\ stack_size' = stack_size - 1
                /\ raised' = resized.raised
                /\ IF resized.raised
                   THEN UNCHANGED <<removes, contents>>
                   ELSE /\ removes' = removes + 1
                        /\ contents' = SubSeq(contents, 1, Len(contents) - 1)
                /\ UNCHANGED adds
    /\ UNCHANGED notArrayStack

ArrayStackSpecInit ==
    /\ MapInit(Keys)
    /\ observed = NotObserved
    /\ ArrayStackInit
    /\ ListIdle
    /\ BoundedQueueIdle
    /\ HistoryInit
    /\ OthersIdle

ArrayStackNext ==
    \/ \E item \in AnyItem : ArrayPush(item)
    \/ ArrayPop

\* Any sequence of push calls, and of pop calls on a stack that holds an item,
\* on one ArrayStack.
SpecArrayStack == ArrayStackSpecInit /\ [][ArrayStackNext]_vars

-----------------------------------------------------------------------------
(* LinkedList, LinkedStack and LinkedQueue                                 *)

\* The nodes a run makes: each insert that returns makes one.
MaxNodes == 5

\* What a call gives when it raises AttributeError (None has no attribute).
AttributeError == 0 - 1

\* _Node(item)
Node(item) == [item |-> item, next |-> 0, prev |-> 0]

\* The list as one value: the node objects, _left, _right and _size.
TheList == [nodes |-> nodes, left |-> left, right |-> right, size |-> list_size]

\* The right-to-left loop of _getnode: the node, 0 for None, or
\* AttributeError when the loop reads None.prev.
RECURSIVE WalkPrev(_, _, _, _)
WalkPrev(ns, current_node, counter, index) ==
    IF counter > index
    THEN IF current_node = 0 THEN AttributeError
         ELSE WalkPrev(ns, ns[current_node].prev, counter - 1, index)
    ELSE current_node

\* The left-to-right loop of _getnode.
RECURSIVE WalkNext(_, _, _, _)
WalkNext(ns, current_node, counter, index) ==
    IF counter < index
    THEN IF current_node = 0 THEN AttributeError
         ELSE WalkNext(ns, ns[current_node].next, counter + 1, index)
    ELSE current_node

\* _getnode: index > len(self) / 2 is 2 * index > len(self)
GetNode(l, index) ==
    IF 2 * index > l.size /\ l.size >= 3
    THEN WalkPrev(l.nodes, l.right, l.size - 1, index)
    ELSE WalkNext(l.nodes, l.left, 0, index)

\* LinkedList.__getitem__: the item, or AttributeError
ListGetItem(l, index) ==
    LET n == GetNode(l, index)
    IN  IF n <= 0 THEN AttributeError ELSE l.nodes[n].item

\* The list a call leaves and whether the call raised.
Returned(l) == [list |-> l, raised |-> FALSE]

Raised(l) == [list |-> l, raised |-> TRUE]

\* LinkedList.insert.  A call that raises has linked nothing, so its new
\* node is garbage and is left out.
ListInsert(l, index, item) ==
    LET new_node == Len(l.nodes) + 1
        ns == Append(l.nodes, Node(item))
    IN  IF index = 0 \/ l.left = 0
        THEN IF l.left = 0
             THEN Returned([nodes |-> ns, left |-> new_node, right |-> new_node,
                            size |-> l.size + 1])
             ELSE Returned([nodes |-> [ns EXCEPT ![new_node].next = l.left,
                                                 ![l.left].prev = new_node],
                            left |-> new_node, right |-> l.right, size |-> l.size + 1])
        ELSE IF index >= l.size
        THEN IF l.right = 0 THEN Raised(l)
             ELSE Returned([nodes |-> [ns EXCEPT ![new_node].prev = l.right,
                                                 ![l.right].next = new_node],
                            left |-> l.left, right |-> new_node, size |-> l.size + 1])
        ELSE LET current_node == GetNode(l, index)
                 previous_node == IF current_node <= 0 THEN AttributeError
                                  ELSE l.nodes[current_node].prev
             IN  IF current_node <= 0 \/ previous_node <= 0 THEN Raised(l)
                 ELSE Returned([nodes |-> [ns EXCEPT ![previous_node].next = new_node,
                                                     ![current_node].prev = new_node,
                                                     ![new_node].prev = previous_node,
                                                     ![new_node].next = current_node],
                                left |-> l.left, right |-> l.right, size |-> l.size + 1])

\* LinkedList.remove (and __delitem__)
ListRemove(l, index) ==
    IF index = 0
    THEN IF l.left = 0 THEN Raised(l)
         ELSE Returned([l EXCEPT !.left = l.nodes[l.left].next, !.size = l.size - 1])
    ELSE IF index = l.size - 1
    THEN LET previous_node == IF l.right = 0 THEN AttributeError
                              ELSE l.nodes[l.right].prev
         IN  IF previous_node <= 0 THEN Raised(l)
             ELSE Returned([nodes |-> [l.nodes EXCEPT ![previous_node].next = 0],
                            left |-> l.left,
                            right |-> IF previous_node # l.left THEN previous_node
                                      ELSE l.right,
                            size |-> l.size - 1])
    ELSE LET current_node == GetNode(l, index)
             previous_node == IF current_node <= 0 THEN AttributeError
                              ELSE l.nodes[current_node].prev
             next_node == IF current_node <= 0 THEN AttributeError
                          ELSE l.nodes[current_node].next
         IN  IF current_node <= 0 \/ previous_node <= 0 THEN Raised(l)
             ELSE IF next_node = 0
             THEN \* previous_node.next is set before next_node.prev raises
                  Raised([l EXCEPT !.nodes[previous_node].next = next_node])
             ELSE Returned([l EXCEPT !.nodes[previous_node].next = next_node,
                                     !.nodes[next_node].prev = previous_node,
                                     !.size = l.size - 1])

\* The list becomes what a call left.
ListBecomes(l) ==
    /\ nodes' = l.nodes
    /\ left' = l.left
    /\ right' = l.right
    /\ list_size' = l.size

\* LinkedList.__init__
ListInit ==
    /\ nodes = <<>>
    /\ left = 0
    /\ right = 0
    /\ list_size = 0

\* LinkedStack.peek: self._items[len(self) - 1]
LinkedPeek == ListGetItem(TheList, list_size - 1)

\* What a LinkedStack call leaves alone.
notList == <<mapVars, observed, arrayStackVars, boundedQueueVars, otherVars>>

\* LinkedStack.push: self._items.insert(len(self), item)
LinkedPush(item) ==
    /\ Len(nodes) < MaxNodes
    /\ LET r == ListInsert(TheList, list_size, item)
       IN  /\ ListBecomes(r.list)
           /\ raised' = r.raised
           /\ IF r.raised THEN UNCHANGED <<adds, removes, contents>>
              ELSE /\ adds' = adds + 1
                   /\ contents' = Append(contents, item)
                   /\ UNCHANGED removes
    /\ UNCHANGED notList

\* LinkedStack.pop, called on a stack that holds an item:
\* del self._items[len(self) - 1]
LinkedPop ==
    /\ contents # <<>>
    /\ LET r == ListRemove(TheList, list_size - 1)
       IN  /\ ListBecomes(r.list)
           /\ raised' = r.raised
           /\ IF r.raised THEN UNCHANGED <<adds, removes, contents>>
              ELSE /\ removes' = removes + 1
                   /\ contents' = SubSeq(contents, 1, Len(contents) - 1)
                   /\ UNCHANGED adds
    /\ UNCHANGED notList

LinkedStackInit ==
    /\ MapInit(Keys)
    /\ observed = NotObserved
    /\ ArrayStackIdle
    /\ ListInit
    /\ BoundedQueueIdle
    /\ HistoryInit
    /\ OthersIdle

LinkedStackNext ==
    \/ \E item \in AnyItem : LinkedPush(item)
    \/ LinkedPop

\* Any sequence of push calls, and of pop calls on a stack that holds an item,
\* on one LinkedStack.
SpecLinkedStack == LinkedStackInit /\ [][LinkedStackNext]_vars

-----------------------------------------------------------------------------
(* StaticArray, BoundedQueue and LinkedQueue                               *)

\* BoundedQueue(capacity)
QueueCapacity == 3

\* StaticArray.__getitem__: the item, or IndexError from the bounds test.
\* (None is NoValue, so IndexError is no item.)
StaticGetItem(its, index) ==
    IF index < 0 \/ index >= ArrayLen(its) THEN IndexError ELSE its[index]

\* StaticArray.__setitem__: a list assignment with no bounds test, so a
\* negative index counts from the end and any other raises IndexError.
StaticSetItem(its, index, item) ==
    LET n == ArrayLen(its)
    IN  IF index >= n \/ index < 0 - n THEN [items |-> its, raised |-> TRUE]
        ELSE [items |-> [its EXCEPT ![IF index < 0 THEN index + n ELSE index] = item],
              raised |-> FALSE]

\* The loop of BoundedQueue.dequeue from position up to n - 1.
RECURSIVE ShiftLoop(_, _, _)
ShiftLoop(its, position, n) ==
    IF position >= n THEN [items |-> its, raised |-> FALSE]
    ELSE IF StaticGetItem(its, position) = IndexError
    THEN [items |-> its, raised |-> TRUE]
    ELSE LET r == StaticSetItem(its, position - 1, its[position])
         IN  IF r.raised THEN r ELSE ShiftLoop(r.items, position + 1, n)

\* A mutant of BoundedQueue.dequeue: the last slot is cleared and nothing is
\* moved.
BoundedDequeueNoShift(its, n) == StaticSetItem(its, n - 1, NoValue)

\* BoundedQueue.dequeue up to the change of _size: the loop, then
\* del self._items[len(self) - 1]
BoundedDequeueItems(its, n) ==
    LET r == ShiftLoop(its, 1, n)
    IN  IF r.raised THEN r ELSE StaticSetItem(r.items, n - 1, NoValue)

\* BoundedQueue.front: self._items[0]
BoundedFront == StaticGetItem(bq_items, 0)

\* LinkedQueue.front: self._items[0]
LinkedFront == ListGetItem(TheList, 0)

\* What a queue call leaves alone.
notQueues == <<mapVars, observed, arrayStackVars, otherVars>>

\* q.enqueue(item) on a LinkedQueue and on a BoundedQueue below its capacity:
\* self._items.insert(len(self), item), and self._items[len(self)] = item
\* then self._size += 1
Enqueue(item) ==
    /\ Len(nodes) < MaxNodes
    /\ bq_size < ArrayLen(bq_items)
    /\ LET r == ListInsert(TheList, list_size, item)
           b == StaticSetItem(bq_items, bq_size, item)
       IN  /\ ListBecomes(r.list)
           /\ bq_items' = b.items
           /\ bq_size' = IF b.raised THEN bq_size ELSE bq_size + 1
           /\ raised' = (r.raised \/ b.raised)
           /\ IF r.raised \/ b.raised THEN UNCHANGED <<adds, removes, contents>>
              ELSE /\ adds' = adds + 1
                   /\ contents' = Append(contents, item)
                   /\ UNCHANGED removes
    /\ UNCHANGED notQueues

\* q.dequeue() on a LinkedQueue and on a BoundedQueue that hold an item:
\* del self._items[0], and the shift, the del and self._size -= 1
Dequeue ==
    /\ contents # <<>>
    /\ LET r == ListRemove(TheList, 0)
           b == BoundedDequeueItems(bq_items, bq_size)
       IN  /\ ListBecomes(r.list)
           /\ bq_items' = b.items
           /\ bq_size' = IF b.raised THEN bq_size ELSE bq_size - 1
           /\ raised' = (r.raised \/ b.raised)
           /\ IF r.raised \/ b.raised THEN UNCHANGED <<adds, removes, contents>>
              ELSE /\ removes' = removes + 1
                   /\ contents' = SubSeq(contents, 2, Len(contents))
                   /\ UNCHANGED adds
    /\ UNCHANGED notQueues

\* LinkedQueue.__init__ and BoundedQueue.__init__
QueuesInit ==
    /\ MapInit(Keys)
    /\ observed = NotObserved
    /\ ArrayStackIdle
    /\ ListInit
    /\ bq_items = NewList(QueueCapacity)
    /\ bq_size = 0
    /\ HistoryInit
    /\ OthersIdle

QueuesNext ==
    \/ \E item \in AnyItem : Enqueue(item)
    \/ Dequeue

\* Any sequence of enqueue calls below the capacity, and of dequeue calls on
\* queues that hold an item, made on a LinkedQueue and a BoundedQueue alike.
SpecQueues == QueuesInit /\ [][QueuesNext]_vars

-----------------------------------------------------------------------------
(* BoundedStack, DequeStack and BoundedQueue called on an empty container  *)

\* BoundedStack(capacity)
StackCapacity == 2

\* The pushes a DequeStack is followed through.
MaxDeque == 2

\* What a BoundedStack call leaves alone.
notBoundedStack ==
    <<mapVars, observed, arrayStackVars, listVars, boundedQueueVars, dequeStackVars,
      priorityQueueVars, setVars, staticArrayVars, sequenceVars, circularQueueVars,
      last_call, adds,
      removes, contents>>

\* BoundedStack.push below the capacity: self._items[len(self)] = item, then
\* self._size += 1
BoundedPush(item) ==
    /\ 0 <= bs_size /\ bs_size < ArrayLen(bs_items)
    /\ LET r == StaticSetItem(bs_items, bs_size, item)
       IN  /\ bs_items' = r.items
           /\ bs_size' = IF r.raised THEN bs_size ELSE bs_size + 1
           /\ raised' = r.raised
    /\ UNCHANGED notBoundedStack

\* BoundedStack.pop as a function of _items and _size:
\* del self._items[len(self) - 1], then self._size -= 1
BoundedPopItems(its, n) ==
    LET r == StaticSetItem(its, n - 1, NoValue)
    IN  [items |-> r.items, size |-> IF r.raised THEN n ELSE n - 1, raised |-> r.raised]

\* BoundedStack.pop, on any stack whose len is not negative
BoundedPop ==
    /\ bs_size >= 0
    /\ LET r == BoundedPopItems(bs_items, bs_size)
       IN  /\ bs_items' = r.items
           /\ bs_size' = r.size
           /\ raised' = r.raised
    /\ UNCHANGED notBoundedStack

\* What a DequeStack call leaves alone.
notDequeStack ==
    <<mapVars, observed, arrayStackVars, listVars, boundedQueueVars, boundedStackVars,
      priorityQueueVars, setVars, staticArrayVars, sequenceVars, circularQueueVars,
      last_call, adds,
      removes, contents>>

\* DequeStack.push: self._size += 1, then self._items.append(item)
DequePush(item) ==
    /\ 0 <= ds_size /\ Len(ds_items) < MaxDeque
    /\ ds_size' = ds_size + 1
    /\ ds_items' = Append(ds_items, item)
    /\ raised' = FALSE
    /\ UNCHANGED notDequeStack

\* DequeStack.pop, on any stack whose len is not negative: self._size -= 1,
\* then self._items.pop(), which raises IndexError on an empty deque
DequePop ==
    /\ ds_size >= 0
    /\ ds_size' = ds_size - 1
    /\ IF ds_items = <<>>
       THEN /\ raised' = TRUE
            /\ UNCHANGED ds_items
       ELSE /\ raised' = FALSE
            /\ ds_items' = SubSeq(ds_items, 1, Len(ds_items) - 1)
    /\ UNCHANGED notDequeStack

\* What a call on the BoundedQueue alone leaves alone.
notBoundedQueue ==
    <<mapVars, observed, arrayStackVars, listVars, otherVars, adds, removes, contents>>

\* BoundedQueue.enqueue below the capacity
BoundedEnqueue(item) ==
    /\ 0 <= bq_size /\ bq_size < ArrayLen(bq_items)
    /\ LET b == StaticSetItem(bq_items, bq_size, item)
       IN  /\ bq_items' = b.items
           /\ bq_size' = IF b.raised THEN bq_size ELSE bq_size + 1
           /\ raised' = b.raised
    /\ UNCHANGED notBoundedQueue

\* BoundedQueue.dequeue, on any queue whose len is not negative
BoundedDequeue ==
    /\ bq_size >= 0
    /\ LET b == BoundedDequeueItems(bq_items, bq_size)
       IN  /\ bq_items' = b.items
           /\ bq_size' = IF b.raised THEN bq_size ELSE bq_size - 1
           /\ raised' = b.raised
    /\ UNCHANGED notBoundedQueue

\* BoundedStack.__init__, DequeStack.__init__ and BoundedQueue.__init__
EmptyInit ==
    /\ MapInit(Keys)
    /\ observed = NotObserved
    /\ ArrayStackIdle
    /\ ListIdle
    /\ bq_items = NewList(QueueCapacity)
    /\ bq_size = 0
    /\ HistoryInit
    /\ bs_items = NewList(StackCapacity)
    /\ bs_size = 0
    /\ ds_items = <<>>
    /\ ds_size = 0
    /\ PriorityQueueIdle
    /\ SetsIdle
    /\ RestIdle

EmptyNext ==
    \/ \E item \in AnyItem : DequePush(item)
    \/ DequePop
    \/ \E item \in AnyItem : BoundedPush(item)
    \/ BoundedPop
    \/ \E item \in AnyItem : BoundedEnqueue(item)
    \/ BoundedDequeue

\* Any sequence of calls on a BoundedStack, a DequeStack and a BoundedQueue,
\* the removals on an empty container included, up to the first negative len.
SpecEmpty == EmptyInit /\ [][EmptyNext]_vars

-----------------------------------------------------------------------------
(* MaxPriorityQueue                                                        *)

\* insert is called with the priorities 1 .. MaxPriority.
MaxPriority == 2

\* The items a MaxPriorityQueue is followed through.
MaxQueued == 3

Priorities == 1..MaxPriority

\* dict.keys()
PQKeys(pq) == DOMAIN pq

\* MaxPriorityQueue.__len__
RECURSIVE PQLenOver(_, _)
PQLenOver(pq, keys) ==
    IF keys = {} THEN 0
    ELSE LET p == CHOOSE k \in keys : TRUE
         IN  Len(pq[p]) + PQLenOver(pq, keys \ {p})

PQLen(pq) == PQLenOver(pq, PQKeys(pq))

\* max(keys) of a set of keys that is not empty
MaxKey(keys) == CHOOSE k \in keys : \A other \in keys : other <= k

\* A mutant of MaxPriorityQueue.insert: the item goes to the front of its
\* level.
PQInsertFront(pq, item, priority) ==
    IF priority \in PQKeys(pq)
    THEN [pq EXCEPT ![priority] = <<item>> \o pq[priority]]
    ELSE [p \in PQKeys(pq) \cup {priority} |-> IF p = priority THEN <<item>> ELSE pq[p]]

\* MaxPriorityQueue.insert
PQInsert(pq, item, priority) ==
    IF priority \in PQKeys(pq)
    THEN [pq EXCEPT ![priority] = Append(pq[priority], item)]
    ELSE [p \in PQKeys(pq) \cup {priority} |-> IF p = priority THEN <<item>> ELSE pq[p]]

\* MaxPriorityQueue.find_max: the deque stored under the greatest key, or
\* ValueError from max() of no keys.
PQFindMax(pq) ==
    IF PQKeys(pq) = {} THEN [type |-> "error", value |-> <<>>]
    ELSE [type |-> "deque", value |-> pq[MaxKey(PQKeys(pq))]]

\* The while loop of MaxPriorityQueue.remove_max from priority on.
RECURSIVE RemoveMaxLoop(_, _)
RemoveMaxLoop(pq, priority) ==
    IF priority <= Cardinality(PQKeys(pq))
    THEN IF priority \notin PQKeys(pq) THEN [items |-> pq, raised |-> TRUE]
         ELSE IF Len(pq[priority]) >= 1
         THEN [items |-> [pq EXCEPT ![priority] = Tail(pq[priority])], raised |-> FALSE]
         ELSE RemoveMaxLoop(pq, priority + 1)
    ELSE [items |-> pq, raised |-> FALSE]

\* MaxPriorityQueue.remove_max
PQRemoveMax(pq) == RemoveMaxLoop(pq, 1)

\* deque.remove(item): the first occurrence goes
RECURSIVE DequeRemove(_, _)
DequeRemove(d, item) ==
    IF d = <<>> THEN <<>>
    ELSE IF Head(d) = item THEN Tail(d)
    ELSE <<Head(d)>> \o DequeRemove(Tail(d), item)

\* item in deque
InDeque(d, item) == \E i \in 1..Len(d) : d[i] = item

\* MaxPriorityQueue.change_priority
PQChangePriority(pq, item, old_priority, new_priority) ==
    IF old_priority \notin PQKeys(pq) \/ ~InDeque(pq[old_priority], item)
    THEN [items |-> pq, raised |-> TRUE]
    ELSE [items |-> PQInsert([pq EXCEPT ![old_priority] = DequeRemove(pq[old_priority], item)],
                             item, new_priority),
          raised |-> FALSE]

\* What a MaxPriorityQueue call leaves alone.
notPriorityQueue ==
    <<mapVars, observed, arrayStackVars, listVars, boundedQueueVars, boundedStackVars,
      dequeStackVars, setVars, staticArrayVars, sequenceVars, circularQueueVars,
      last_call, adds,
      removes, contents>>

\* The call that was made, on the _items it found, and what it gave back.
Call(name, item, old_priority, new_priority, returned) ==
    [name |-> name, item |-> item, old_priority |-> old_priority,
     new_priority |-> new_priority, before |-> pq_items, returned |-> returned]

\* return None
ReturnsNone == [type |-> "None", value |-> <<>>]

\* q.insert(item, priority)
Insert(item, priority) ==
    /\ PQLen(pq_items) < MaxQueued
    /\ pq_items' = PQInsert(pq_items, item, priority)
    /\ raised' = FALSE
    /\ pq_call' = Call("insert", item, 0, priority, ReturnsNone)
    /\ UNCHANGED notPriorityQueue

\* q.remove_max(), on any queue
RemoveMax ==
    /\ LET r == PQRemoveMax(pq_items)
       IN  /\ pq_items' = r.items
           /\ raised' = r.raised
           /\ pq_call' = Call("remove_max", NoValue, 0, 0,
                              IF r.raised THEN [type |-> "error", value |-> <<>>]
                              ELSE ReturnsNone)
    /\ UNCHANGED notPriorityQueue

\* q.find_max(), on any queue
FindMax ==
    /\ raised' = (PQFindMax(pq_items).type = "error")
    /\ pq_call' = Call("find_max", NoValue, 0, 0, PQFindMax(pq_items))
    /\ UNCHANGED pq_items
    /\ UNCHANGED notPriorityQueue

\* q.change_priority(item, old_priority, new_priority)
ChangePriority(item, old_priority, new_priority) ==
    /\ LET r == PQChangePriority(pq_items, item, old_priority, new_priority)
       IN  /\ pq_items' = r.items
           /\ raised' = r.raised
           /\ pq_call' = Call("change_priority", item, old_priority, new_priority,
                              IF r.raised THEN [type |-> "error", value |-> <<>>]
                              ELSE ReturnsNone)
    /\ UNCHANGED notPriorityQueue

\* MaxPriorityQueue.__init__
PriorityQueueInit ==
    /\ MapInit(Keys)
    /\ observed = NotObserved
    /\ ArrayStackIdle
    /\ ListIdle
    /\ BoundedQueueIdle
    /\ HistoryInit
    /\ BoundedStackIdle
    /\ DequeStackIdle
    /\ pq_items = <<>>
    /\ pq_call = NoCall
    /\ SetsIdle
    /\ RestIdle

PriorityQueueNext ==
    \/ \E item \in Items, priority \in Priorities : Insert(item, priority)
    \/ RemoveMax
    \/ FindMax
    \/ \E item \in Items, old_priority, new_priority \in Priorities :
           ChangePriority(item, old_priority, new_priority)

\* Any sequence of calls on one MaxPriorityQueue.
SpecPriorityQueue == PriorityQueueInit /\ [][PriorityQueueNext]_vars

-----------------------------------------------------------------------------
(* HashSet and ArraySet                                                    *)

\* The elements of the sets.  At 15 slots the probe sequence of 17 is the
\* slots 2, 7 and 12 and no other.
Elements == {1, 2, 3, 7, 12, 17}

\* The value HashSet.add stores: True
TrueValue == 1

\* HashSet.__init__: a new ArrayHashMap
NewHashSet ==
    [type |-> "HashSet", table |-> NewTable(7), size |-> 0, max_size |-> 7 - (7 \div 3)]

\* ArraySet.__init__: a new DynamicArray and _size
NewArraySet == [type |-> "ArraySet", items |-> NewList(1), eff |-> 0, size |-> 0]

\* How a call ended, and the set it left.
Ended(outcome, set) == [outcome |-> outcome, set |-> set]

\* HashSet.add: self._elements[element] = True
HashAdd(s, element) ==
    LET found == Search(s.table, element)
    IN  IF found = Diverges THEN Ended("diverges", s)
        ELSE IF found # NoneSlot
        THEN Ended("returns", [s EXCEPT !.table = Overwrite(s.table, found, TrueValue)])
        ELSE LET slot == InsertionSearch(s.table, element)
                 inserted == [s.table EXCEPT ![slot] = MapEntry(element, TrueValue)]
             IN  IF slot = Diverges THEN Ended("diverges", s)
                 ELSE IF s.size + 1 = s.max_size
                 THEN LET r == Rehash(inserted)
                      IN  IF r.hung THEN Ended("diverges", s)
                          ELSE Ended("returns", [s EXCEPT !.table = r.table,
                                                          !.size = r.size,
                                                          !.max_size = r.max_size])
                 ELSE Ended("returns", [s EXCEPT !.table = inserted, !.size = s.size + 1])

\* HashSet.remove: del self._elements[element]
HashRemove(s, element) ==
    LET found == Search(s.table, element)
    IN  IF found = Diverges THEN Ended("diverges", s)
        ELSE IF found = NoneSlot THEN Ended("raises", s)
        ELSE Ended("returns", [s EXCEPT !.table = [s.table EXCEPT ![found] = EMPTY],
                                        !.size = s.size - 1])

\* _MapIterator: the keys from slot i on, in slot order, of the slots with
\* entry is not None and entry.key is not None
RECURSIVE MapIterator(_, _)
MapIterator(t, i) ==
    IF i >= TableLen(t) THEN <<>>
    ELSE IF t[i] # UNUSED /\ ~IsNone(t[i].key) THEN <<t[i].key>> \o MapIterator(t, i + 1)
    ELSE MapIterator(t, i + 1)

\* _ArraySetIterator: self.items._elements[current] for current below len
ArraySetIterator(s) ==
    [i \in 1..(IF s.size <= ArrayLen(s.items) THEN s.size ELSE ArrayLen(s.items)) |->
        s.items[i - 1]]

\* len(set)
SetLen(s) == s.size

\* iter(set): the elements the iterator gives
SetIter(s) == IF s.type = "HashSet" THEN MapIterator(s.table, 0) ELSE ArraySetIterator(s)

\* The iterator raises: IndexError after the last element of an ArraySet whose
\* len is beyond its array, ValueError from len() when _size is negative.
IterRaises(s) == s.type = "ArraySet" /\ (s.size > ArrayLen(s.items) \/ s.size < 0)

\* element in set: "True", "False", "diverges" or "raises"
SetContains(s, element) ==
    IF s.type = "HashSet" THEN Contains(s.table, element)
    ELSE IF \E i \in DOMAIN SetIter(s) : SetIter(s)[i] = element THEN "True"
    ELSE IF IterRaises(s) THEN "raises"
    ELSE "False"

\* self._items[index] of a Python list: the position, or IndexError
ListPosition(its, index) ==
    IF index >= ArrayLen(its) \/ index < 0 - ArrayLen(its) THEN IndexError
    ELSE IF index < 0 THEN index + ArrayLen(its)
    ELSE index

\* The for loop of DynamicArray.shift, from index on for count more rounds;
\* direction is 1 or -1.
RECURSIVE ShiftLoopFrom(_, _, _, _, _)
ShiftLoopFrom(its, index, count, direction, step) ==
    IF count <= 0 THEN [items |-> its, raised |-> FALSE]
    ELSE LET from == ListPosition(its, index)
             to == ListPosition(its, index + step)
         IN  IF from = IndexError \/ to = IndexError THEN [items |-> its, raised |-> TRUE]
             ELSE ShiftLoopFrom([[its EXCEPT ![to] = its[from]] EXCEPT ![from] = NoValue],
                                index + direction, count - 1, direction, step)

\* DynamicArray.shift
ArrayShift(its, start, stop, step) ==
    IF step >= 0
    THEN ShiftLoopFrom(its, stop, (stop - start) + 1, 0 - 1, step)
    ELSE ShiftLoopFrom(its, start, (stop - start) + 1, 1, step)

\* StaticArray.index: the first position of the item in the whole list; the
\* ValueError of list.index is given as IndexError, the model's one value for a
\* raise.
ArrayIndex(its, item) ==
    IF \E i \in DOMAIN its : its[i] = item
    THEN CHOOSE i \in DOMAIN its : its[i] = item /\ \A j \in DOMAIN its : its[j] = item => i <= j
    ELSE IndexError

\* The resize an ArraySet call makes when needs_resize says so.
ResizeIfNeeded(its, eff) ==
    IF NeedsResize(its, eff) THEN ArrayResize(its, eff, NeedsCapacity(its, eff))
    ELSE [items |-> its, raised |-> FALSE]

\* ArraySet.add
ArrayAdd(s, element) ==
    LET c == SetContains(s, element)
    IN  IF c = "True" THEN Ended("returns", s)
        ELSE IF c = "raises" THEN Ended("raises", s)
        ELSE LET resized == ResizeIfNeeded(s.items, s.eff)
                 stored == ArraySetItem(resized.items, s.eff, s.size, element)
             IN  IF resized.raised THEN Ended("raises", s)
                 ELSE IF stored.raised
                 THEN Ended("raises", [s EXCEPT !.items = resized.items])
                 ELSE Ended("returns", [s EXCEPT !.items = stored.items,
                                                 !.eff = stored.eff,
                                                 !.size = s.size + 1])

\* ArraySet.remove
ArrayRemove(s, element) ==
    LET position == ArrayIndex(s.items, element)
        shifted == ArrayShift(s.items, position + 1, s.size - 1, 0 - 1)
        resized == ResizeIfNeeded(shifted.items, s.eff)
    IN  IF position = IndexError THEN Ended("raises", s)
        ELSE IF shifted.raised THEN Ended("raises", [s EXCEPT !.items = shifted.items])
        ELSE IF resized.raised THEN Ended("raises", [s EXCEPT !.items = shifted.items])
        ELSE Ended("returns", [s EXCEPT !.items = resized.items, !.size = s.size - 1])

\* set.add(element)
SetAdd(s, element) ==
    IF s.type = "HashSet" THEN HashAdd(s, element) ELSE ArrayAdd(s, element)

\* set.remove(element)
SetRemove(s, element) ==
    IF s.type = "HashSet" THEN HashRemove(s, element) ELSE ArrayRemove(s, element)

\* The remove calls a set is followed through.
MaxSetRemoves == 2

\* What a call on the sets leaves alone.
notSets ==
    <<mapVars, observed, arrayStackVars, listVars, boundedQueueVars, boundedStackVars,
      dequeStackVars, priorityQueueVars, staticArrayVars, sequenceVars,
      circularQueueVars, last_call,
      adds, contents>>

\* A call on set_left, with the element it was given and how it ended.
SetCall(name, element, outcome) ==
    [name |-> name, element |-> element, before |-> set_left, members |-> set_ref,
     outcome |-> outcome]

\* left.add(element).  A set whose _size went below 0 is followed no further.
AddLeft(element) ==
    /\ ~set_hung
    /\ SetLen(set_left) >= 0
    /\ LET r == SetAdd(set_left, element)
       IN  /\ set_left' = r.set
           /\ set_hung' = (r.outcome = "diverges")
           /\ raised' = (r.outcome = "raises")
           /\ set_ref' = IF r.outcome = "returns" THEN set_ref \cup {element} ELSE set_ref
           /\ set_call' = NoSetCall
    /\ UNCHANGED <<set_right, removes, notSets>>

\* left.remove(element).  A set whose _size went below 0 is followed no
\* further.
RemoveLeft(element) ==
    /\ ~set_hung
    /\ SetLen(set_left) >= 0
    /\ removes < MaxSetRemoves
    /\ LET r == SetRemove(set_left, element)
       IN  /\ set_left' = r.set
           /\ set_hung' = (r.outcome = "diverges")
           /\ raised' = (r.outcome = "raises")
           /\ set_ref' = IF r.outcome = "returns" THEN set_ref \ {element} ELSE set_ref
           /\ set_call' = SetCall("remove", element, r.outcome)
           /\ removes' = removes + 1
    /\ UNCHANGED <<set_right, notSets>>

\* HashSet.__init__ twice, or ArraySet.__init__ twice
SetsInit ==
    /\ MapInit(Keys)
    /\ observed = NotObserved
    /\ ArrayStackIdle
    /\ ListIdle
    /\ BoundedQueueIdle
    /\ HistoryInit
    /\ BoundedStackIdle
    /\ DequeStackIdle
    /\ PriorityQueueIdle
    /\ RestIdle
    /\ set_left \in {NewHashSet, NewArraySet}
    /\ set_right = set_left
    /\ set_ref = {}
    /\ set_call = NoSetCall
    /\ set_hung = FALSE

SetsNext ==
    \/ \E element \in Elements : AddLeft(element)
    \/ \E element \in set_ref : RemoveLeft(element)

\* Any sequence of add calls and of remove calls of a member, on one HashSet
\* or on one ArraySet.
SpecSets == SetsInit /\ [][SetsNext]_vars

SetsAnyNext ==
    \/ \E element \in Elements : AddLeft(element)
    \/ \E element \in Elements : RemoveLeft(element)

\* Any sequence of add and remove calls, of members or not, on one HashSet or
\* on one ArraySet.
SpecSetsAnyRemove == SetsInit /\ [][SetsAnyNext]_vars

-----------------------------------------------------------------------------
(* The operators of HashSet and ArraySet                                   *)

\* The elements the right set is followed through.
MaxRight == 1

\* HashSet() or ArraySet(), for a set of the class of s
NewSetLike(s) == IF s.type = "HashSet" THEN NewHashSet ELSE NewArraySet

\* What a method whose body is `pass` returns.
None == [type |-> "NoneType"]

\* for element in elements: if element not in right: return False; from the
\* i-th element on.  "True" when the loop ends.
RECURSIVE AllIn(_, _, _)
AllIn(elements, i, b) ==
    IF i > Len(elements) THEN "True"
    ELSE LET c == SetContains(b, elements[i])
         IN  IF c = "True" THEN AllIn(elements, i + 1, b)
             ELSE c

\* The loop over iter(self), which may raise after its last element.
EachIn(a, b) ==
    LET verdict == AllIn(SetIter(a), 1, b)
    IN  IF verdict = "True" /\ IterRaises(a) THEN "raises" ELSE verdict

\* __eq__
SetEq(a, b) ==
    IF SetLen(a) # SetLen(b) THEN "False" ELSE EachIn(a, b)

\* __lt__
SetLt(a, b) ==
    IF SetLen(a) >= SetLen(b) THEN "False" ELSE EachIn(a, b)

\* __gt__
SetGt(a, b) ==
    IF SetLen(a) <= SetLen(b) THEN "False" ELSE SetLt(b, a)

\* __le__: (self == right) or (self < right)
SetLe(a, b) ==
    IF SetEq(a, b) = "False" THEN SetLt(a, b) ELSE SetEq(a, b)

\* __ge__: (self == right) or (self > right)
SetGe(a, b) ==
    IF SetEq(a, b) = "False" THEN SetGt(a, b) ELSE SetEq(a, b)

\* for element in elements: acc.add(element); from the i-th element on
RECURSIVE AddEach(_, _, _)
AddEach(acc, elements, i) ==
    IF i > Len(elements) THEN Ended("returns", acc)
    ELSE LET r == SetAdd(acc, elements[i])
         IN  IF r.outcome # "returns" THEN r ELSE AddEach(r.set, elements, i + 1)

\* for element in elements: if element in other: acc.add(element)
RECURSIVE AddCommon(_, _, _, _)
AddCommon(acc, elements, i, other) ==
    IF i > Len(elements) THEN Ended("returns", acc)
    ELSE LET c == SetContains(other, elements[i])
             r == SetAdd(acc, elements[i])
         IN  IF c = "False" THEN AddCommon(acc, elements, i + 1, other)
             ELSE IF c # "True" THEN Ended(c, acc)
             ELSE IF r.outcome # "returns" THEN r
             ELSE AddCommon(r.set, elements, i + 1, other)

\* A loop over iter(s) that ended as r: the iterator may raise after it.
AfterIter(s, r) ==
    IF r.outcome = "returns" /\ IterRaises(s) THEN Ended("raises", r.set) ELSE r

\* __add__: the union
SetUnion(a, b) ==
    LET first == AfterIter(a, AddEach(NewSetLike(a), SetIter(a), 1))
    IN  IF first.outcome # "returns" THEN first
        ELSE AfterIter(b, AddEach(first.set, SetIter(b), 1))

\* __mul__: the intersection
SetIntersection(a, b) ==
    IF SetLen(a) <= SetLen(b)
    THEN AfterIter(a, AddCommon(NewSetLike(a), SetIter(a), 1, b))
    ELSE AfterIter(b, AddCommon(NewSetLike(a), SetIter(b), 1, a))

\* __sub__: pass
SetDifference(a, b) == Ended("returns", None)

\* The elements for which `element in s` is True.
Members(s) == {element \in Elements : SetContains(s, element) = "True"}

\* How a comparison ended.
Verdict(v) == IF v \in {"True", "False"} THEN "returns" ELSE v

\* left <op> right: how the call ended
Operate(op) ==
    IF op = "+" THEN SetUnion(set_left, set_right).outcome
    ELSE IF op = "*" THEN SetIntersection(set_left, set_right).outcome
    ELSE IF op = "-" THEN SetDifference(set_left, set_right).outcome
    ELSE IF op = "==" THEN Verdict(SetEq(set_left, set_right))
    ELSE IF op = "<" THEN Verdict(SetLt(set_left, set_right))
    ELSE IF op = "<=" THEN Verdict(SetLe(set_left, set_right))
    ELSE IF op = ">" THEN Verdict(SetGt(set_left, set_right))
    ELSE Verdict(SetGe(set_left, set_right))

Operators == {"+", "*", "-", "==", "<", "<=", ">", ">="}

\* right.add(element)
AddRight(element) ==
    /\ ~set_hung
    /\ SetLen(set_right) < MaxRight
    /\ LET r == SetAdd(set_right, element)
       IN  /\ set_right' = r.set
           /\ set_hung' = (r.outcome = "diverges")
           /\ raised' = (r.outcome = "raises")
           /\ set_call' = NoSetCall
    /\ UNCHANGED <<set_left, set_ref, removes, notSets>>

\* left <op> right
Apply(op) ==
    /\ ~set_hung
    /\ set_hung' = (Operate(op) = "diverges")
    /\ raised' = (Operate(op) = "raises")
    /\ set_call' = SetCall(op, 0, Operate(op))
    /\ UNCHANGED <<set_left, set_right, set_ref, removes, notSets>>

SetAlgebraNext ==
    \/ \E element \in {e \in Elements : \A member \in set_ref : member < e} :
           AddLeft(element)
    \/ \E element \in Elements : AddRight(element)
    \/ \E op \in Operators : Apply(op)

\* Two HashSets, or two ArraySets, built by add calls (the left one in
\* increasing order of its elements) and then compared and combined.
SpecSetAlgebra == SetsInit /\ [][SetAlgebraNext]_vars

-----------------------------------------------------------------------------
(* LinkedList: insert, remove, get and set at an index, and the iterators  *)

\* The insert calls a list is followed through.
MaxInserts == 4

\* The indices outside a list that get, set and remove are tried with reach
\* this far below 0 and beyond len - 1.
IndexReach == 2

\* LinkedList.__setitem__: self._getnode(index).item = item
ListSetItem(l, index, item) ==
    LET n == GetNode(l, index)
    IN  IF n <= 0 THEN Raised(l) ELSE Returned([l EXCEPT !.nodes[n].item = item])

\* _LinkedIterator: the items from the current node on, following next.  No
\* list has more than Len(ns) items, so the walk is cut after Len(ns) + 1 of
\* them: that many items mean next leads round in a circle.
RECURSIVE LinkedIterator(_, _, _)
LinkedIterator(ns, current, given) ==
    IF current = 0 \/ given > Len(ns) THEN <<>>
    ELSE <<ns[current].item>> \o LinkedIterator(ns, ns[current].next, given + 1)

\* _ReversedLinkedIterator: the items from the current node on, following prev
RECURSIVE ReversedLinkedIterator(_, _, _)
ReversedLinkedIterator(ns, current, given) ==
    IF current = 0 \/ given > Len(ns) THEN <<>>
    ELSE <<ns[current].item>> \o ReversedLinkedIterator(ns, ns[current].prev, given + 1)

\* LinkedList.__iter__
ListIter(l) == LinkedIterator(l.nodes, l.left, 0)

\* LinkedList.__reversed__: from _right, or from _left when _right is None
ListReversed(l) ==
    IF l.right # 0 THEN ReversedLinkedIterator(l.nodes, l.right, 0)
    ELSE ReversedLinkedIterator(l.nodes, l.left, 0)

\* The reference sequence with the item put at the index (from 0).
InsertedAt(seq, index, item) ==
    SubSeq(seq, 1, index) \o <<item>> \o SubSeq(seq, index + 1, Len(seq))

\* The reference sequence without the item at the index (from 0).
RemovedAt(seq, index) == SubSeq(seq, 1, index) \o SubSeq(seq, index + 2, Len(seq))

\* The reference sequence in the opposite order.
Reversed(seq) == [i \in 1..Len(seq) |-> seq[Len(seq) + 1 - i]]

\* A call on the list: its arguments, the list before it, how it ended and
\* what it returned.
ListCall(name, index, item, outcome, value) ==
    [name |-> name, index |-> index, item |-> item, before |-> TheList,
     outcome |-> outcome, value |-> value]

\* What a call on the LinkedList leaves alone.
notLinkedList ==
    <<mapVars, observed, arrayStackVars, boundedQueueVars, boundedStackVars,
      dequeStackVars, priorityQueueVars, setVars, staticArrayVars, sequenceVars,
      circularQueueVars>>

\* The last call was made with an index outside the list.
OutOfRangeCall ==
    /\ last_call.name \in {"get", "set", "remove"}
    /\ (last_call.index < 0 \/ last_call.index >= last_call.before.size)

\* A list is followed up to its first call that raises and its first call
\* with an index outside the list.
Followed == ~raised /\ ~OutOfRangeCall

\* list.insert(index, item)
InsertAt(index, item) ==
    /\ Followed
    /\ adds < MaxInserts
    /\ LET r == ListInsert(TheList, index, item)
       IN  /\ ListBecomes(r.list)
           /\ raised' = r.raised
           /\ last_call' = ListCall("insert", index, item,
                                    IF r.raised THEN "raises" ELSE "returns", 0)
           /\ IF r.raised THEN UNCHANGED <<adds, contents>>
              ELSE /\ adds' = adds + 1
                   /\ contents' = InsertedAt(contents, index, item)
    /\ UNCHANGED <<removes, notLinkedList>>

\* list.remove(index), or del list[index]
RemoveAt(index) ==
    /\ Followed
    /\ LET r == ListRemove(TheList, index)
       IN  /\ ListBecomes(r.list)
           /\ raised' = r.raised
           /\ last_call' = ListCall("remove", index, 0,
                                    IF r.raised THEN "raises" ELSE "returns", 0)
           /\ IF r.raised \/ index < 0 \/ index >= Len(contents)
              THEN UNCHANGED <<removes, contents>>
              ELSE /\ removes' = removes + 1
                   /\ contents' = RemovedAt(contents, index)
    /\ UNCHANGED <<adds, notLinkedList>>

\* list[index]
GetAt(index) ==
    /\ Followed
    /\ LET v == ListGetItem(TheList, index)
       IN  /\ raised' = (v = AttributeError)
           /\ last_call' = ListCall("get", index, 0,
                                    IF v = AttributeError THEN "raises" ELSE "returns", v)
    /\ UNCHANGED <<listVars, adds, removes, contents, notLinkedList>>

\* list[index] = item
SetAt(index, item) ==
    /\ Followed
    /\ LET r == ListSetItem(TheList, index, item)
       IN  /\ ListBecomes(r.list)
           /\ raised' = r.raised
           /\ last_call' = ListCall("set", index, item,
                                    IF r.raised THEN "raises" ELSE "returns", 0)
    /\ UNCHANGED <<adds, removes, contents, notLinkedList>>

\* The indices of a list that are not valid for get, set and remove.
OutOfRange == ((0 - IndexReach)..(0 - 1)) \cup (list_size..(list_size + IndexReach - 1))

LinkedListNext ==
    \/ \E index \in 0..list_size, item \in Items : InsertAt(index, item)
    \/ \E index \in 0..(list_size - 1) : RemoveAt(index)

\* Any sequence of insert calls with 0 <= index <= len and remove calls with
\* 0 <= index < len on one LinkedList.
SpecLinkedList == LinkedStackInit /\ [][LinkedListNext]_vars

LinkedListAnyNext ==
    \/ \E index \in 0..list_size, item \in Items : InsertAt(index, item)
    \/ \E index \in OutOfRange : GetAt(index)
    \/ \E index \in OutOfRange, item \in Items : SetAt(index, item)
    \/ \E index \in OutOfRange : RemoveAt(index)

\* A LinkedList built by insert calls with 0 <= index <= len, and then one
\* get, set or remove call with an index outside the list.
SpecLinkedListAnyIndex == LinkedStackInit /\ [][LinkedListAnyNext]_vars

-----------------------------------------------------------------------------
(* StaticArray: get, set and clear at any index                            *)

\* StaticArray(length) with 0 <= length <= MaxLength
MaxLength == 2

\* The indices a call is given reach this far below 0 and beyond the length.
StaticReach == 3

\* A call on a container that is one value: its arguments, the container
\* before it, how it ended and what it returned.
LastCall(name, index, item, before, outcome, value) ==
    [name |-> name, index |-> index, item |-> item, before |-> before,
     outcome |-> outcome, value |-> value]

\* What a StaticArray call leaves alone.
notStaticArray ==
    <<mapVars, observed, arrayStackVars, listVars, boundedQueueVars, historyVars,
      boundedStackVars, dequeStackVars, priorityQueueVars, setVars, sequenceVars,
      circularQueueVars>>

\* array[index]
StaticGet(index) ==
    /\ LET v == StaticGetItem(sa_items, index)
       IN  last_call' = LastCall("get", index, 0, sa_items,
                                 IF v = IndexError THEN "raises" ELSE "returns", v)
    /\ UNCHANGED <<sa_items, notStaticArray>>

\* array[index] = item
StaticSet(index, item) ==
    /\ LET r == StaticSetItem(sa_items, index, item)
       IN  /\ sa_items' = r.items
           /\ last_call' = LastCall("set", index, item, sa_items,
                                    IF r.raised THEN "raises" ELSE "returns", 0)
    /\ UNCHANGED notStaticArray

\* del array[index]: self[index] = None
StaticDel(index) ==
    /\ LET r == StaticSetItem(sa_items, index, NoValue)
       IN  /\ sa_items' = r.items
           /\ last_call' = LastCall("del", index, 0, sa_items,
                                    IF r.raised THEN "raises" ELSE "returns", 0)
    /\ UNCHANGED notStaticArray

\* StaticArray(length)
StaticArrayInit ==
    /\ MapInit(Keys)
    /\ observed = NotObserved
    /\ ArrayStackIdle
    /\ ListIdle
    /\ BoundedQueueIdle
    /\ HistoryInit
    /\ BoundedStackIdle
    /\ DequeStackIdle
    /\ PriorityQueueIdle
    /\ SetsIdle
    /\ SequencesIdle
    /\ CircularQueueIdle
    /\ last_call = NoLastCall
    /\ sa_items \in {NewList(length) : length \in 0..MaxLength}

\* The indices tried on the array.
StaticIndices == (0 - StaticReach)..(ArrayLen(sa_items) + StaticReach - 1)

StaticArrayNext ==
    \/ \E index \in StaticIndices : StaticGet(index)
    \/ \E index \in StaticIndices, item \in Items : StaticSet(index, item)
    \/ \E index \in StaticIndices : StaticDel(index)

\* Any sequence of get, set and del calls at any index on one StaticArray.
SpecStaticArray == StaticArrayInit /\ [][StaticArrayNext]_vars

-----------------------------------------------------------------------------
(* DynamicArray: set, clear, resize and shift                              *)

\* resize(capacity) is called with 0 <= capacity <= MaxCapacity.
MaxCapacity == 4

\* The array as one value.
TheArray == [items |-> items, eff |-> effective_size]

\* What a DynamicArray call leaves alone.
notDynamicArray ==
    <<mapVars, observed, stack_size, listVars, boundedQueueVars, historyVars,
      boundedStackVars, dequeStackVars, priorityQueueVars, setVars, staticArrayVars,
      sequenceVars, circularQueueVars>>

\* array[index] = item, and del array[index] (item None), with
\* 0 <= index < len(array).  An array whose effective_size has left
\* 0 .. MaxCapacity is followed no further.
DynSet(index, item) ==
    /\ effective_size \in 0..MaxCapacity
    /\ LET r == ArraySetItem(items, effective_size, index, item)
       IN  /\ items' = r.items
           /\ effective_size' = r.eff
           /\ last_call' = LastCall(IF item = NoValue THEN "del" ELSE "set", index, item,
                                    TheArray, IF r.raised THEN "raises" ELSE "returns", 0)
    /\ UNCHANGED notDynamicArray

\* array.resize(capacity); last_call.index is the capacity
DynResize(capacity) ==
    /\ LET r == ArrayResize(items, effective_size, capacity)
       IN  /\ items' = r.items
           /\ last_call' = LastCall("resize", capacity, 0, TheArray,
                                    IF r.raised THEN "raises" ELSE "returns", 0)
    /\ UNCHANGED <<effective_size, notDynamicArray>>

\* array.shift(start, stop, step) under its preconditions: start > 0,
\* stop < len(self), start < stop, start + step >= 0; last_call.index is start
DynShift(start, stop, step) ==
    /\ start > 0
    /\ stop < ArrayLen(items)
    /\ start < stop
    /\ start + step >= 0
    /\ LET r == ArrayShift(items, start, stop, step)
       IN  /\ items' = r.items
           /\ last_call' = LastCall("shift", start, 0, TheArray,
                                    IF r.raised THEN "raises" ELSE "returns", 0)
    /\ UNCHANGED <<effective_size, notDynamicArray>>

DynamicArrayNext ==
    \/ \E index \in 0..(ArrayLen(items) - 1), item \in AnyItem : DynSet(index, item)
    \/ \E capacity \in 0..MaxCapacity : DynResize(capacity)
    \/ \E start \in 1..MaxCapacity, stop \in 1..MaxCapacity, step \in {0 - 1, 1} :
           DynShift(start, stop, step)

\* Any sequence of set, del, resize and shift calls on one DynamicArray.
SpecDynamicArray == ArrayStackSpecInit /\ [][DynamicArrayNext]_vars

\* The steps of a shift: -MaxStep .. MaxStep
MaxStep == 2

\* array.shift(start, stop, step) for every start <= stop and step whose
\* destination range lies within the array; last_call keeps start as index,
\* stop as item and step as value.
DynShiftWithin(start, stop, step) ==
    /\ 0 <= start /\ start <= stop /\ stop < ArrayLen(items)
    /\ 0 <= start + step /\ stop + step < ArrayLen(items)
    /\ LET r == ArrayShift(items, start, stop, step)
       IN  /\ items' = r.items
           /\ last_call' = LastCall("shift", start, stop, TheArray,
                                    IF r.raised THEN "raises" ELSE "returns", step)
    /\ UNCHANGED <<effective_size, notDynamicArray>>

DynamicArrayShiftNext ==
    \/ \E index \in 0..(ArrayLen(items) - 1), item \in AnyItem : DynSet(index, item)
    \/ \E capacity \in 0..MaxCapacity : DynResize(capacity)
    \/ \E start \in 0..MaxCapacity, stop \in 0..MaxCapacity,
          step \in (0 - MaxStep)..MaxStep : DynShiftWithin(start, stop, step)

\* Any sequence of set, del and resize calls and of shift calls whose source
\* and destination ranges lie within the array, on one DynamicArray.
SpecDynamicArrayShift == ArrayStackSpecInit /\ [][DynamicArrayShiftNext]_vars

-----------------------------------------------------------------------------
(* Vectors and sequences (dev/datatypes/vectors.py, sequences.py)          *)
(*                                                                         *)
(* A sequence is one value: its class, the fields of its _items and its    *)
(* _size.  BoundedSequence inherits __delitem__ and insert from            *)
(* BoundedVector, ArraySequence from ArrayVector and LinkedSequence from   *)
(* LinkedVector.                                                           *)

\* ArrayVector.__init__: DynamicArray(16)
InitialCapacity == 16

\* BoundedSequence(capacity): a StaticArray of the capacity
NewBounded(capacity) == [type |-> "BoundedSequence", items |-> NewList(capacity), size |-> 0]

\* ArraySequence(): a DynamicArray of 16 empty slots
NewArraySequence ==
    [type |-> "ArraySequence", items |-> NewList(InitialCapacity), eff |-> 0, size |-> 0]

\* LinkedSequence(): a LinkedList
NewLinked ==
    [type |-> "LinkedSequence", list |-> [nodes |-> <<>>, left |-> 0, right |-> 0, size |-> 0],
     size |-> 0]

\* The sequence a call leaves and whether the call raised.
SeqReturned(q) == [seq |-> q, raised |-> FALSE]

SeqRaised(q) == [seq |-> q, raised |-> TRUE]

\* len(sequence)
SeqLen(q) == q.size

\* BoundedVector.capacity: len(self._items)
Capacity(q) == ArrayLen(q.items)

\* Vector.__getitem__: self._items[index]; the item, or IndexError (of a
\* LinkedList, AttributeError)
SeqGetItem(q, index) ==
    IF q.type = "LinkedSequence" THEN ListGetItem(q.list, index)
    ELSE StaticGetItem(q.items, index)

\* Vector.__setitem__: self._items[index] = item
SeqSetItem(q, index, item) ==
    IF q.type = "BoundedSequence"
    THEN LET r == StaticSetItem(q.items, index, item)
         IN  [seq |-> [q EXCEPT !.items = r.items], raised |-> r.raised]
    ELSE IF q.type = "ArraySequence"
    THEN LET r == ArraySetItem(q.items, q.eff, index, item)
         IN  [seq |-> [q EXCEPT !.items = r.items, !.eff = r.eff], raised |-> r.raised]
    ELSE LET r == ListSetItem(q.list, index, item)
         IN  [seq |-> [q EXCEPT !.list = r.list], raised |-> r.raised]

\* ArrayIterator(self) of a BoundedVector or ArrayVector: self[0] ..
\* self[len(self) - 1]; LinkedListIterator(self._items.head): the items from
\* the head on, following next
SeqIter(q) ==
    IF q.type = "LinkedSequence" THEN ListIter(q.list)
    ELSE [i \in 1..(IF q.size > 0 THEN q.size ELSE 0) |-> SeqGetItem(q, i - 1)]

\* for position in range(len(self) - 1, index - 1, -1):
\*     self[position + 1] = self[position]
RECURSIVE ShiftRight(_, _, _)
ShiftRight(q, position, index) ==
    IF position < index THEN SeqReturned(q)
    ELSE LET v == SeqGetItem(q, position)
             r == SeqSetItem(q, position + 1, v)
         IN  IF v = IndexError THEN SeqRaised(q)
             ELSE IF r.raised THEN r
             ELSE ShiftRight(r.seq, position - 1, index)

\* for position in range(index + 1, len(self)):
\*     self[position - 1] = self[position]
RECURSIVE ShiftLeft(_, _)
ShiftLeft(q, position) ==
    IF position >= q.size THEN SeqReturned(q)
    ELSE LET v == SeqGetItem(q, position)
             r == SeqSetItem(q, position - 1, v)
         IN  IF v = IndexError THEN SeqRaised(q)
             ELSE IF r.raised THEN r
             ELSE ShiftLeft(r.seq, position + 1)

\* A mutant of insert: on a full array the loop starts one position lower,
\* so the last item is dropped and nothing raises.
ShiftAndStoreDroppingLast(q, index, item) ==
    LET full == q.size = ArrayLen(q.items) /\ index < q.size
        shifted == ShiftRight(q, IF full THEN q.size - 2 ELSE q.size - 1, index)
        stored == SeqSetItem(shifted.seq, index, item)
    IN  IF shifted.raised THEN shifted
        ELSE IF stored.raised THEN stored
        ELSE SeqReturned([stored.seq EXCEPT !.size = IF full THEN q.size ELSE q.size + 1])

\* The end of BoundedVector.insert and ArrayVector.insert: the loop,
\* self[index] = item, self._size += 1
ShiftAndStore(q, index, item) ==
    LET shifted == ShiftRight(q, q.size - 1, index)
        stored == SeqSetItem(shifted.seq, index, item)
    IN  IF shifted.raised THEN shifted
        ELSE IF stored.raised THEN stored
        ELSE SeqReturned([stored.seq EXCEPT !.size = q.size + 1])

\* BoundedVector.insert, ArrayVector.insert, LinkedVector.insert
SeqInsert(q, index, item) ==
    IF q.type = "BoundedSequence" THEN ShiftAndStore(q, index, item)
    ELSE IF q.type = "ArraySequence"
    THEN IF q.size = ArrayLen(q.items)
         THEN LET r == ArrayResize(q.items, q.eff, 2 * q.size)
              IN  IF r.raised THEN SeqRaised(q)
                  ELSE ShiftAndStore([q EXCEPT !.items = r.items], index, item)
         ELSE ShiftAndStore(q, index, item)
    ELSE LET r == ListInsert(q.list, index, item)
         IN  IF r.raised THEN SeqRaised([q EXCEPT !.list = r.list])
             ELSE SeqReturned([q EXCEPT !.list = r.list, !.size = q.size + 1])

\* A mutant of __delitem__: the last slot is cleared and nothing is moved.
BoundedDeleteNoShift(q, index) ==
    LET cleared == SeqSetItem(q, q.size - 1, NoValue)
    IN  IF cleared.raised THEN cleared
        ELSE SeqReturned([cleared.seq EXCEPT !.size = q.size - 1])

\* BoundedVector.__delitem__: the loop, del self._items[len(self) - 1],
\* self._size -= 1
BoundedDelete(q, index) ==
    LET shifted == ShiftLeft(q, index + 1)
        cleared == SeqSetItem(shifted.seq, q.size - 1, NoValue)
    IN  IF shifted.raised THEN shifted
        ELSE IF cleared.raised THEN cleared
        ELSE SeqReturned([cleared.seq EXCEPT !.size = q.size - 1])

\* Sequence.append: self.insert(len(self), item)
SeqAppend(q, item) == SeqInsert(q, q.size, item)

\* for item in ...: new.append(item), from the i-th item on
RECURSIVE AppendEach(_, _, _)
AppendEach(q, given, i) ==
    IF i > Len(given) THEN SeqReturned(q)
    ELSE CHOOSE out \in {IF r.raised THEN r ELSE AppendEach(r.seq, given, i + 1) :
                            r \in {SeqAppend(q, given[i])}} : TRUE

\* The new sequence of __add__
NewLike(a, b) ==
    IF a.type = "BoundedSequence" THEN NewBounded(Capacity(a) + Capacity(b))
    ELSE IF a.type = "ArraySequence" THEN NewArraySequence
    ELSE NewLinked

\* BoundedSequence.__add__, ArraySequence.__add__, LinkedSequence.__add__
SeqAdd(a, b) ==
    LET first == AppendEach(NewLike(a, b), SeqIter(a), 1)
    IN  IF first.raised THEN first ELSE AppendEach(first.seq, SeqIter(b), 1)

\* BoundedVector(capacity) with 0 <= capacity <= VectorCapacity
VectorCapacity == 3

\* What a call on the sequences leaves alone.
notSequences ==
    <<mapVars, observed, arrayStackVars, listVars, boundedQueueVars, boundedStackVars,
      dequeStackVars, priorityQueueVars, setVars, staticArrayVars, circularQueueVars,
      adds, removes>>

\* vector.insert(index, item) with 0 <= index <= len(vector), on a full vector
\* as well
VectorInsert(index, item) ==
    /\ LET r == SeqInsert(seq_left, index, item)
       IN  /\ seq_left' = r.seq
           /\ raised' = r.raised
           /\ last_call' = LastCall("insert", index, item, seq_left,
                                    IF r.raised THEN "raises" ELSE "returns", 0)
           /\ contents' = IF r.raised THEN contents ELSE InsertedAt(contents, index, item)
    /\ UNCHANGED <<seq_right, notSequences>>

\* del vector[index] with 0 <= index < len(vector)
VectorDelete(index) ==
    /\ LET r == BoundedDelete(seq_left, index)
       IN  /\ seq_left' = r.seq
           /\ raised' = r.raised
           /\ last_call' = LastCall("delete", index, 0, seq_left,
                                    IF r.raised THEN "raises" ELSE "returns", 0)
           /\ contents' = IF r.raised THEN contents ELSE RemovedAt(contents, index)
    /\ UNCHANGED <<seq_right, notSequences>>

\* Every container but the sequences is as constructed.
NoSequenceYet ==
    /\ MapInit(Keys)
    /\ observed = NotObserved
    /\ ArrayStackIdle
    /\ ListIdle
    /\ BoundedQueueIdle
    /\ HistoryInit
    /\ BoundedStackIdle
    /\ DequeStackIdle
    /\ PriorityQueueIdle
    /\ SetsIdle
    /\ StaticArrayIdle
    /\ CircularQueueIdle
    /\ last_call = NoLastCall

\* BoundedVector(capacity)
BoundedVectorInit ==
    /\ NoSequenceYet
    /\ seq_left \in {NewBounded(capacity) : capacity \in 0..VectorCapacity}
    /\ seq_right = <<>>

BoundedVectorNext ==
    \/ \E index \in 0..SeqLen(seq_left), item \in AnyItem : VectorInsert(index, item)
    \/ \E index \in 0..(SeqLen(seq_left) - 1) : VectorDelete(index)

\* Any sequence of insert calls with 0 <= index <= len and del calls with
\* 0 <= index < len on one BoundedVector.
SpecBoundedVector == BoundedVectorInit /\ [][BoundedVectorNext]_vars

\* Whether index is a position of q.
InRange(q, index) == 0 <= index /\ index < SeqLen(q)

\* No call with an index that is no position has been made yet: the
\* exploration follows a vector up to its first such call.
NoStray == last_call.name \notin {"get", "delete"}

\* vector[index], with an index that is no position of the vector
VectorGetStray(index) ==
    /\ NoStray
    /\ ~InRange(seq_left, index)
    /\ LET v == SeqGetItem(seq_left, index)
       IN  /\ last_call' = LastCall("get", index, 0, seq_left,
                                    IF v = IndexError THEN "raises" ELSE "returns",
                                    IF v = IndexError THEN 0 ELSE v)
           /\ raised' = (v = IndexError)
    /\ UNCHANGED <<seq_left, seq_right, contents, notSequences>>

\* del vector[index], with an index that is no position of the vector
VectorDeleteStray(index) ==
    /\ NoStray
    /\ ~InRange(seq_left, index)
    /\ LET r == BoundedDelete(seq_left, index)
       IN  /\ seq_left' = r.seq
           /\ raised' = r.raised
           /\ last_call' = LastCall("delete", index, 0, seq_left,
                                    IF r.raised THEN "raises" ELSE "returns", 0)
    /\ UNCHANGED <<seq_right, contents, notSequences>>

\* The indices tried: one below 0 up to the greatest capacity.
StrayIndices == (0 - 1)..VectorCapacity

BoundedVectorAnyNext ==
    \/ \E index \in 0..SeqLen(seq_left), item \in AnyItem :
          NoStray /\ VectorInsert(index, item)
    \/ \E index \in StrayIndices : VectorGetStray(index)
    \/ \E index \in StrayIndices : VectorDeleteStray(index)

\* A BoundedVector built by insert calls, then one get or delete at an index
\* that is no position.
SpecBoundedVectorAnyIndex == BoundedVectorInit /\ [][BoundedVectorAnyNext]_vars

\* The left sequence takes any items up to length SeqLength, the right
\* sequence up to length RightLength
SeqLength == 2
RightLength == 1

\* The sequences a fresh pair of one class starts from.
NewSequences ==
    {<<NewBounded(c), NewBounded(d)>> : c \in 0..VectorCapacity, d \in 0..RightLength}
        \cup {<<NewArraySequence, NewArraySequence>>, <<NewLinked, NewLinked>>}

\* Whether q has room for an append: a BoundedSequence below its capacity (the
\* precondition of append), an ArraySequence up to the capacity it starts with,
\* a LinkedSequence up to SeqLength.
MayAppend(q) ==
    IF q.type = "BoundedSequence" THEN SeqLen(q) < Capacity(q)
    ELSE IF q.type = "ArraySequence" THEN SeqLen(q) < InitialCapacity
    ELSE SeqLen(q) < SeqLength

\* The exploration cut-off of the long sequences: from length SeqLength on a
\* sequence is extended by its last item again.
MayTake(q, item) ==
    SeqLen(q) < SeqLength \/ item = SeqGetItem(q, SeqLen(q) - 1)

\* left.append(item)
AppendLeft(item) ==
    /\ MayAppend(seq_left)
    /\ MayTake(seq_left, item)
    /\ LET r == SeqAppend(seq_left, item)
       IN  /\ seq_left' = r.seq
           /\ raised' = r.raised
    /\ last_call' = LastCall("append", 0, item, <<seq_left, seq_right>>, "returns", 0)
    /\ UNCHANGED <<seq_right, contents, notSequences>>

\* right.append(item)
AppendRight(item) ==
    /\ MayAppend(seq_right)
    /\ SeqLen(seq_right) < RightLength
    /\ LET r == SeqAppend(seq_right, item)
       IN  /\ seq_right' = r.seq
           /\ raised' = r.raised
    /\ last_call' = LastCall("append", 1, item, <<seq_left, seq_right>>, "returns", 0)
    /\ UNCHANGED <<seq_left, contents, notSequences>>

\* left + right: __add__ reads both operands through their iterators and
\* assigns to neither; the new sequence is kept in last_call.value.
Concat ==
    /\ last_call.name # "add"
    /\ LET r == SeqAdd(seq_left, seq_right)
       IN  /\ last_call' = LastCall("add", 0, 0, <<seq_left, seq_right>>,
                                    IF r.raised THEN "raises" ELSE "returns", r.seq)
           /\ raised' = r.raised
    /\ UNCHANGED <<seq_left, seq_right, contents, notSequences>>

\* Two empty sequences of one class
SequencesInit ==
    /\ NoSequenceYet
    /\ \E pair \in NewSequences :
          /\ seq_left = pair[1]
          /\ seq_right = pair[2]

SequencesNext ==
    \/ \E item \in AnyItem : AppendLeft(item)
    \/ \E item \in AnyItem : AppendRight(item)
    \/ Concat

\* Two sequences of one class built by append calls, and left + right.
SpecSequences == SequencesInit /\ [][SequencesNext]_vars

\* What index gives when its loop ends without a return: None.
ReturnedNone == 0 - 1

\* Sequence.index and Vector.index: for count, seq_item in enumerate(self):
\* if seq_item == item: return count; from the count-th item of the iteration
\* on.  No statement follows the loop.
RECURSIVE IndexLoop(_, _, _)
IndexLoop(given, item, count) ==
    IF count >= Len(given) THEN ReturnedNone
    ELSE IF given[count + 1] = item THEN count
    ELSE IndexLoop(given, item, count + 1)

SeqIndex(q, item) == IndexLoop(SeqIter(q), item, 0)

\* left.index(item), for an item of the sequence or any other
IndexOf(item) ==
    /\ LET p == SeqIndex(seq_left, item)
       IN  last_call' = LastCall("index", 0, item, <<seq_left, seq_right>>,
                                 IF p = ReturnedNone THEN "returns None" ELSE "returns",
                                 IF p = ReturnedNone THEN 0 ELSE p)
    /\ UNCHANGED <<seq_left, seq_right, raised, contents, notSequences>>

SequenceIndexNext ==
    \/ \E item \in AnyItem : AppendLeft(item)
    \/ \E item \in AnyItem : IndexOf(item)

\* A sequence built by append calls, and index calls on it.
SpecSequenceIndex == SequencesInit /\ [][SequenceIndexNext]_vars

-----------------------------------------------------------------------------
(* LinkedDeque (comp/collections.py)                                       *)

\* The names that comp/linkedlists.py defines.
LinkedListsNames ==
    {"_Iterator", "LinkedList", "_Node", "_LinkedIterator", "_ReversedLinkedIterator"}

\* The attributes of a LinkedList.
LinkedListAttributes ==
    {"_left", "_right", "_size", "_getnode", "__len__", "__getitem__", "__setitem__",
     "__delitem__", "__iter__", "__reversed__", "__repr__", "__str__", "insert", "remove"}

\* LinkedDeque.__init__: self._items = _linkedlists._LinkedList().  Looking up
\* a name the module does not define raises AttributeError, and then there
\* is no deque.
LinkedDequeNew ==
    IF "_LinkedList" \in LinkedListsNames
    THEN [bound |-> TRUE, attributes |-> LinkedListAttributes]
    ELSE [bound |-> FALSE, attributes |-> {}]

\* The attribute of self._items that each method of LinkedDeque calls.
DequeCalls ==
    [add_left |-> "insert_left", add_right |-> "insert_right",
     remove_left |-> "remove_left", remove_right |-> "remove_right",
     peek_left |-> "__getitem__", peek_right |-> "__getitem__", len |-> "__len__"]

\* Whether a call of the method on the deque d raises before it has done
\* anything: there is no deque (NameError), or self._items has no such
\* attribute (AttributeError).
DequeRaises(d, method) == ~d.bound \/ DequeCalls[method] \notin d.attributes

\* The deque the longest run is compared with holds up to MaxDequeLen items.
MaxDequeLen == 4

\* What the claim says the deque holds after a call, left end first.
DequeAfter(method, item, q) ==
    IF method = "add_left" THEN <<item>> \o q
    ELSE IF method = "add_right" THEN Append(q, item)
    ELSE IF method = "remove_left" THEN Tail(q)
    ELSE SubSeq(q, 1, Len(q) - 1)

\* d.add_left(item), d.add_right(item), d.remove_left(), d.remove_right() on
\* d = LinkedDeque(); contents follows what the claim says the deque holds.
DequeCall(method, item) ==
    /\ last_call' = LastCall(method, 0, item, contents,
                             IF DequeRaises(LinkedDequeNew, method) THEN "raises"
                             ELSE "returns", 0)
    /\ raised' = DequeRaises(LinkedDequeNew, method)
    /\ contents' = DequeAfter(method, item, contents)
    /\ UNCHANGED <<listVars, adds, removes, notLinkedList>>

\* d = LinkedDeque()
LinkedDequeInit ==
    /\ MapInit(Keys)
    /\ observed = NotObserved
    /\ ArrayStackIdle
    /\ ListInit
    /\ BoundedQueueIdle
    /\ adds = 0
    /\ removes = 0
    /\ contents = <<>>
    /\ raised = ~LinkedDequeNew.bound
    /\ BoundedStackIdle
    /\ DequeStackIdle
    /\ PriorityQueueIdle
    /\ SetsIdle
    /\ StaticArrayIdle
    /\ SequencesIdle
    /\ CircularQueueIdle
    /\ last_call = LastCall("LinkedDeque", 0, 0, <<>>,
                            IF LinkedDequeNew.bound THEN "returns" ELSE "raises", 0)

LinkedDequeNext ==
    \/ \E item \in Items :
          Len(contents) < MaxDequeLen /\ DequeCall("add_left", item)
    \/ \E item \in Items :
          Len(contents) < MaxDequeLen /\ DequeCall("add_right", item)
    \/ Len(contents) > 0 /\ DequeCall("remove_left", 0)
    \/ Len(contents) > 0 /\ DequeCall("remove_right", 0)

\* d = LinkedDeque() and any sequence of add and remove calls, the removes
\* where the claim's deque is not empty.
SpecLinkedDeque == LinkedDequeInit /\ [][LinkedDequeNext]_vars

-----------------------------------------------------------------------------
(* BoundedCircularQueue (dev/datatypes/queues.py)                          *)

\* BoundedCircularQueue(capacity) with 0 <= capacity <= CircularCapacity
CircularCapacity == 3

\* The dequeue calls of a run
MaxDequeues == 4

\* BoundedCircularQueue.__init__
NewCircular(capacity) == [items |-> NewList(capacity), size |-> 0, start |-> 0, end |-> 0]

\* BoundedCircularQueue.front: self._items[self._start]
CircularFront(q) == StaticGetItem(q.items, q.start)

\* BoundedCircularQueue.enqueue: self._items[self._end] = item, then
\* self._end = (self._end + 1) % self.capacity and self._size += 1
CircularEnqueued(q, item) ==
    LET r == StaticSetItem(q.items, q.end, item)
    IN  IF r.raised THEN [queue |-> q, raised |-> TRUE]
        ELSE [queue |-> [items |-> r.items, size |-> q.size + 1, start |-> q.start,
                         end |-> (q.end + 1) % ArrayLen(q.items)],
              raised |-> FALSE]

\* BoundedCircularQueue.dequeue: self._items[self._end] = None, then
\* self._start = (self._start + 1) % self.capacity; the last statement,
\* self._size +- 1, is an expression and assigns nothing
CircularDequeued(q) ==
    LET r == StaticSetItem(q.items, q.end, NoValue)
    IN  IF r.raised THEN [queue |-> q, raised |-> TRUE]
        ELSE [queue |-> [items |-> r.items, size |-> q.size,
                         start |-> (q.start + 1) % ArrayLen(q.items), end |-> q.end],
              raised |-> FALSE]

\* What a call on the BoundedCircularQueue leaves alone.
notCircularQueue ==
    <<mapVars, observed, arrayStackVars, listVars, boundedQueueVars, boundedStackVars,
      dequeStackVars, priorityQueueVars, setVars, staticArrayVars, sequenceVars>>

\* queue.enqueue(item) while len(queue) < capacity
CircularEnqueue(item) ==
    /\ cq.size < ArrayLen(cq.items)
    /\ LET r == CircularEnqueued(cq, item)
       IN  /\ cq' = r.queue
           /\ raised' = r.raised
           /\ last_call' = LastCall("enqueue", 0, item, cq,
                                    IF r.raised THEN "raises" ELSE "returns", 0)
           /\ adds' = IF r.raised THEN adds ELSE adds + 1
           /\ contents' = IF r.raised THEN contents ELSE Append(contents, item)
    /\ UNCHANGED <<removes, notCircularQueue>>

\* queue.dequeue() while len(queue) >= 1
CircularDequeue ==
    /\ cq.size >= 1
    /\ removes < MaxDequeues
    /\ LET r == CircularDequeued(cq)
       IN  /\ cq' = r.queue
           /\ raised' = r.raised
           /\ last_call' = LastCall("dequeue", 0, 0, cq,
                                    IF r.raised THEN "raises" ELSE "returns", 0)
           /\ removes' = IF r.raised THEN removes ELSE removes + 1
           /\ contents' = IF r.raised \/ contents = <<>> THEN contents ELSE Tail(contents)
    /\ UNCHANGED <<adds, notCircularQueue>>

\* BoundedCircularQueue(capacity)
CircularQueueInit ==
    /\ MapInit(Keys)
    /\ observed = NotObserved
    /\ ArrayStackIdle
    /\ ListIdle
    /\ BoundedQueueIdle
    /\ HistoryInit
    /\ BoundedStackIdle
    /\ DequeStackIdle
    /\ PriorityQueueIdle
    /\ SetsIdle
    /\ StaticArrayIdle
    /\ SequencesIdle
    /\ last_call = NoLastCall
    /\ cq \in {NewCircular(capacity) : capacity \in 0..CircularCapacity}

CircularQueueNext ==
    \/ \E item \in Items : CircularEnqueue(item)
    \/ CircularDequeue

\* Any interleaving of enqueue calls while len < capacity and dequeue calls
\* while len >= 1 on one BoundedCircularQueue.
SpecCircularQueue == CircularQueueInit /\ [][CircularQueueNext]_vars

-----------------------------------------------------------------------------
(* ArrayHashMap: the claims                                                *)

\* C1: a key k whose last completed set or delete call was map[k] = v is
\* looked up with v, and k in map is true.
C1_SetThenGet ==
    ~hung =>
        \A k \in Keys :
            ref[k] # NoValue =>
                (GetItem(table, k) = ref[k] /\ Contains(table, k) = "True")

\* C1 witness: keys have been set, across a rehash and next to a deleted
\* slot, and one has been set again with another value.
C1_Witness ==
    /\ ~hung
    /\ TableLen(table) = 15
    /\ \E i \in DOMAIN table : table[i] = EMPTY
    /\ \E k \in Keys : ref[k] = 2 /\ GetItem(table, k) = 2
    /\ \E k \in Keys : ref[k] = 1 /\ GetItem(table, k) = 1

\* C2: whenever del map[k] of a present key k returns, k in map gives False
\* and map[k] fails its assertion.
C2_DeleteThenAbsent ==
    [][\A k \in Keys :
         (Search(table, k) >= 0 /\ MapDelete(k)) =>
             (Contains(table', k) = "False" /\ GetItem(table', k) = AssertionError)]_vars

\* C3: a rehash that returns leaves exactly the key/value pairs the table
\* held when it began, each key in one slot, and the same len.
C3_RehashPreserves ==
    (rehashLog.on /\ ~hung) =>
        /\ StoredPairs(table) = StoredPairs(rehashLog.pre)
        /\ \A k \in StoredKeys(rehashLog.pre) : Cardinality(SlotsOf(table, k)) = 1
        /\ size = rehashLog.preSize

\* C3 witness: a rehash has run on a table with five entries and a deleted
\* slot, and has returned.
C3_Witness ==
    /\ rehashLog.on
    /\ ~hung
    /\ Cardinality(StoredKeys(rehashLog.pre)) = 5
    /\ \E i \in DOMAIN rehashLog.pre : rehashLog.pre[i] = EMPTY
    /\ TableLen(table) = 15

\* C4: no call has entered a probe loop that never exits, and in the state
\* reached contains, get, set and delete would return for every key.
C4_EveryCallTerminates ==
    /\ ~hung
    /\ \A k \in Keys :
          /\ Search(table, k) # Diverges
          /\ Search(table, k) = NoneSlot => InsertionSearch(table, k) # Diverges

\* C6: in the scenario no rehash runs before the fifth insertion, the fifth
\* insertion rehashes to 15 slots, and after every insertion each key
\* inserted so far is looked up with its value.
C6_Scenario ==
    LET n == Cardinality(Inserted)
    IN  /\ ~hung
        /\ Inserted = 1..n
        /\ n < 5 => (TableLen(table) = 7 /\ ~rehashLog.on)
        /\ n = 5 => (TableLen(table) = 15 /\ rehashLog.on)
        /\ n > 5 => TableLen(table) >= 15
        /\ \A k \in 1..n :
              GetItem(table, k) = ScenarioValue(k) /\ Contains(table, k) = "True"
        /\ (observed.key >= 1 /\ observed.key <= observed.after) =>
              observed.value = ScenarioValue(observed.key)

\* C6 witness: all keys are inserted and the last one has been looked up.
C6_Witness ==
    /\ Cardinality(Inserted) = ScenarioLast
    /\ observed.key = ScenarioLast
    /\ observed.value = ScenarioValue(ScenarioLast)

\* C7: the effective size of the backing array is the pushes that returned
\* minus the pops that returned, and the capacity is at least that.
C7_EffectiveSize ==
    /\ effective_size = adds - removes
    /\ ArrayLen(items) >= effective_size

\* C8: no push and no pop on a stack that holds an item raises, len is the
\* pushes minus the pops, and peek gives the last item pushed and not popped.
C8_ArrayStackLifo ==
    /\ ~raised
    /\ stack_size = adds - removes
    /\ contents # <<>> => ArrayPeek = contents[Len(contents)]

\* C9: no push and no pop on a LinkedStack that holds an item raises, len is
\* the pushes minus the pops, and peek gives the last item pushed and not
\* popped.
C9_LinkedStackLifo ==
    /\ ~raised
    /\ list_size = adds - removes
    /\ contents # <<>> => LinkedPeek = contents[Len(contents)]

\* C10: no enqueue below the capacity and no dequeue on a queue that holds an
\* item raises; on the LinkedQueue and on the BoundedQueue len is the enqueues
\* minus the dequeues, and front gives the oldest item not yet dequeued.
C10_Fifo ==
    /\ ~raised
    /\ list_size = adds - removes
    /\ bq_size = adds - removes
    /\ contents # <<>> => /\ LinkedFront = contents[1]
                          /\ BoundedFront = contents[1]

\* C10 happens: more items than the capacity have been enqueued, some were
\* dequeued, and the front of both queues is an item unlike the one behind it.
C10_Witness ==
    /\ ~raised
    /\ adds > QueueCapacity
    /\ removes >= 2
    /\ Len(contents) >= 2
    /\ contents[1] # contents[2]
    /\ LinkedFront = contents[1]
    /\ BoundedFront = contents[1]
    /\ bq_size = Len(contents)
    /\ list_size = Len(contents)

\* C11: pop on an empty BoundedStack or DequeStack and dequeue on an empty
\* BoundedQueue raise, and leave len at 0 and the stored items as they were.
C11_EmptyRemoveRaises ==
    [][/\ (bs_size = 0 /\ BoundedPop) =>
            (raised' /\ bs_size' = 0 /\ bs_items' = bs_items)
       /\ (ds_size = 0 /\ DequePop) =>
            (raised' /\ ds_size' = 0 /\ ds_items' = ds_items)
       /\ (bq_size = 0 /\ BoundedDequeue) =>
            (raised' /\ bq_size' = 0 /\ bq_items' = bq_items)]_vars

\* C12: remove_max on a queue that holds an item returns and takes away
\* exactly the first item of the highest priority level that holds an item.
C12_RemoveMax ==
    (pq_call.name = "remove_max" /\ PQLen(pq_call.before) >= 1) =>
        LET pq == pq_call.before
            highest == MaxKey({p \in PQKeys(pq) : pq[p] # <<>>})
        IN  /\ ~raised
            /\ pq_items = [pq EXCEPT ![highest] = Tail(pq[highest])]

\* C13: find_max on a queue that holds an item leaves the queue as it was and
\* returns one item, the first of the highest priority level that holds one.
C13_FindMax ==
    (pq_call.name = "find_max" /\ PQLen(pq_call.before) >= 1) =>
        LET pq == pq_call.before
            highest == MaxKey({p \in PQKeys(pq) : pq[p] # <<>>})
        IN  /\ pq_items = pq
            /\ pq_call.returned.type = "item"
            /\ pq_call.returned.value = pq[highest][1]

\* C14: remove_max and find_max on a queue that holds no item raise, on a
\* new queue and on one whose items were all removed.
C14_EmptyRaises ==
    (pq_call.name \in {"remove_max", "find_max"} /\ PQLen(pq_call.before) = 0) =>
        /\ raised
        /\ pq_call.returned.type = "error"

\* C15: change_priority(item, old, new) with item at level old returns, takes
\* one occurrence of item out of level old and puts it last in level new; the
\* other items keep their levels and their order, so len is unchanged.
C15_ChangePriority ==
    (/\ pq_call.name = "change_priority"
     /\ pq_call.old_priority \in PQKeys(pq_call.before)
     /\ InDeque(pq_call.before[pq_call.old_priority], pq_call.item)) =>
        LET pq == pq_call.before
            old == pq_call.old_priority
            new == pq_call.new_priority
        IN  /\ ~raised
            /\ PQLen(pq_items) = PQLen(pq)
            /\ PQKeys(pq_items) = PQKeys(pq) \cup {new}
            /\ \E i \in 1..Len(pq[old]) :
                  /\ pq[old][i] = pq_call.item
                  /\ LET without == [pq EXCEPT ![old] = SubSeq(pq[old], 1, i - 1)
                                                        \o SubSeq(pq[old], i + 1, Len(pq[old]))]
                     IN  \A p \in PQKeys(pq_items) :
                           pq_items[p] = IF p # new THEN without[p]
                                         ELSE IF p \in PQKeys(pq)
                                         THEN Append(without[p], pq_call.item)
                                         ELSE <<pq_call.item>>

\* C15 happens: an item that is in its level behind another one was moved to
\* a level that held an item.
C15_Witness ==
    /\ pq_call.name = "change_priority"
    /\ ~raised
    /\ pq_call.old_priority # pq_call.new_priority
    /\ pq_call.old_priority \in PQKeys(pq_call.before)
    /\ pq_call.new_priority \in PQKeys(pq_call.before)
    /\ Len(pq_call.before[pq_call.old_priority]) = 2
    /\ pq_call.before[pq_call.old_priority][1] # pq_call.item
    /\ pq_call.before[pq_call.old_priority][2] = pq_call.item
    /\ Len(pq_call.before[pq_call.new_priority]) = 1
    /\ Len(pq_items[pq_call.new_priority]) = 2
    /\ pq_items[pq_call.new_priority][2] = pq_call.item
    /\ Len(pq_items[pq_call.old_priority]) = 1

\* C16: after any add calls and remove calls of members, every call has
\* returned, `e in set` is the membership of the reference set for every
\* element, and len is the number of its members.
C16_SetRefinement ==
    /\ ~set_hung
    /\ ~raised
    /\ SetLen(set_left) = Cardinality(set_ref)
    /\ \A element \in Elements :
          SetContains(set_left, element) = IF element \in set_ref THEN "True" ELSE "False"

\* C20: remove(e) of an element that is not a member raises and leaves the
\* set as it was.
C20_RemoveAbsentRaises ==
    (set_call.name = "remove" /\ set_call.element \notin set_call.members) =>
        /\ set_call.outcome = "raises"
        /\ set_left = set_call.before

\* C17: for sets A and B built by add, A + B and A * B return sets with
\* len(A + B) = len(A) + len(B) - len(A * B), A <= A + B is True and
\* A * B <= A is True.
C17_UnionIntersection ==
    set_call.name \in {"+", "*"} =>
        LET union == SetUnion(set_left, set_right)
            intersection == SetIntersection(set_left, set_right)
        IN  /\ union.outcome = "returns"
            /\ intersection.outcome = "returns"
            /\ SetLen(union.set) =
                   SetLen(set_left) + SetLen(set_right) - SetLen(intersection.set)
            /\ SetLe(set_left, union.set) = "True"
            /\ SetLe(intersection.set, set_left) = "True"

\* C18: for sets A and B of one class, A == B is True exactly when they have
\* the same members and False otherwise, A < B exactly when A is a strict
\* subset of B, A <= B exactly when A is a subset of B, A > B exactly when B
\* is a strict subset of A, and A >= B exactly when B is a subset of A.
C18_Comparisons ==
    set_call.name \in {"==", "<", "<=", ">", ">="} =>
        LET A == Members(set_left)
            B == Members(set_right)
        IN  /\ SetEq(set_left, set_right) = IF A = B THEN "True" ELSE "False"
            /\ SetLt(set_left, set_right) =
                   IF A \subseteq B /\ A # B THEN "True" ELSE "False"
            /\ SetLe(set_left, set_right) =
                   IF A \subseteq B THEN "True" ELSE "False"
            /\ SetGt(set_left, set_right) =
                   IF B \subseteq A /\ A # B THEN "True" ELSE "False"
            /\ SetGe(set_left, set_right) =
                   IF B \subseteq A THEN "True" ELSE "False"

\* C19: A - B returns a new set of the class of A whose members are the
\* members of A that are not members of B.
C19_Difference ==
    set_call.name = "-" =>
        LET difference == SetDifference(set_left, set_right)
        IN  /\ difference.outcome = "returns"
            /\ difference.set.type = set_left.type
            /\ Members(difference.set) = Members(set_left) \ Members(set_right)

\* C21: after each insert(i, x) with 0 <= i <= len and each remove(i) with
\* 0 <= i < len the call has returned, len(list) is the reference length,
\* list[i] is the reference's i-th item for every 0 <= i < len, and forward
\* iteration gives the reference items in order.
C21_ListRefinement ==
    /\ ~raised
    /\ list_size = Len(contents)
    /\ \A i \in 0..(Len(contents) - 1) : ListGetItem(TheList, i) = contents[i + 1]
    /\ ListIter(TheList) = contents

\* C22: list[i], list[i] = x and remove(i) with i < 0 or i >= len raise, and
\* leave len and the items of the list as they were.
C22_OutOfRangeRaises ==
    OutOfRangeCall =>
        /\ last_call.outcome = "raises"
        /\ list_size = last_call.before.size
        /\ ListIter(TheList) = ListIter(last_call.before)

\* C23: in a list of size n >= 1, n - 1 steps of next from _left end at _right,
\* n - 1 steps of prev from _right end at _left, _left has no prev and _right
\* has no next; a list of size 0 has neither _left nor _right.
C23_EndsLinked ==
    /\ list_size >= 1 =>
          /\ left # 0
          /\ right # 0
          /\ WalkNext(nodes, left, 0, list_size - 1) = right
          /\ WalkPrev(nodes, right, list_size - 1, 0) = left
          /\ nodes[left].prev = 0
          /\ nodes[right].next = 0
    /\ list_size = 0 => (left = 0 /\ right = 0)

\* C24: reversed(list) gives the items of forward iteration in the opposite
\* order, and both give nothing when len(list) is 0.
C24_ReversedIsForwardBackwards ==
    /\ ListReversed(TheList) = Reversed(ListIter(TheList))
    /\ list_size = 0 => (ListIter(TheList) = <<>> /\ ListReversed(TheList) = <<>>)

\* C25: on a StaticArray of length N, array[i], array[i] = x and del array[i]
\* return exactly for 0 <= i < N (the get with the item of slot i, the set and
\* the del changing slot i alone) and raise for every other i, leaving every
\* slot as it was.
C25_StaticBounds ==
    last_call.name \in {"get", "set", "del"} =>
        LET before == last_call.before
            i == last_call.index
        IN  IF 0 <= i /\ i < ArrayLen(before)
            THEN /\ last_call.outcome = "returns"
                 /\ last_call.name = "get" => (last_call.value = before[i] /\ sa_items = before)
                 /\ last_call.name = "set" => sa_items = [before EXCEPT ![i] = last_call.item]
                 /\ last_call.name = "del" => sa_items = [before EXCEPT ![i] = NoValue]
            ELSE /\ last_call.outcome = "raises"
                 /\ sa_items = before

\* C26: effective_size is the number of slots that are not None, and
\* 0 <= effective_size <= capacity.
C26_EffectiveSizeCounts ==
    /\ effective_size = Cardinality({i \in DOMAIN items : items[i] # NoValue})
    /\ 0 <= effective_size
    /\ effective_size <= ArrayLen(items)

\* C27: on an array that holds its items in the slots 0 .. effective_size - 1,
\* resize(c) returns and leaves an array of length c whose slots below
\* min(effective_size, c) hold the items they held and whose other slots are
\* None.
C27_ResizeKeepsItems ==
    (/\ last_call.name = "resize"
     /\ \A i \in DOMAIN last_call.before.items :
           (last_call.before.items[i] # NoValue) = (i < last_call.before.eff)) =>
        /\ last_call.outcome = "returns"
        /\ ArrayLen(items) = last_call.index
        /\ \A i \in DOMAIN items :
              items[i] = IF i < last_call.before.eff THEN last_call.before.items[i]
                         ELSE NoValue

RECURSIVE Pow2(_)
Pow2(n) == IF n <= 0 THEN 1 ELSE 2 * Pow2(n - 1)

RECURSIVE FloorLog2(_)
FloorLog2(n) == IF n <= 1 THEN 0 ELSE 1 + FloorLog2(n \div 2)

\* C34: in every state of a DynamicArray in which needs_resize is true,
\* needs_capacity returns twice the length when the fill ratio is >= 1, 1 when
\* effective_size is 0, and 2^(floor(log2(effective_size)) + 1) otherwise.
C34_NeedsCapacity ==
    NeedsResize(items, effective_size) =>
        NeedsCapacity(items, effective_size) =
            IF effective_size > 0 /\ effective_size >= ArrayLen(items)
            THEN 2 * ArrayLen(items)
            ELSE IF effective_size = 0 THEN 1
            ELSE Pow2(FloorLog2(effective_size) + 1)

\* C40: in every state reached by calls that returned, len(map) is the number
\* of slots that hold an entry, no key is held by two slots, len(map) is below
\* max_size, and iterating the map yields the present keys, each once.
C40_MapInvariant ==
    ~hung =>
        LET yielded == MapIterator(table, 0)
            present == {k \in DOMAIN ref : ref[k] # NoValue}
        IN  /\ size = Cardinality({i \in DOMAIN table : table[i].tag = "entry"})
            /\ \A k \in DOMAIN ref : Cardinality(SlotsOf(table, k)) <= 1
            /\ size < max_size
            /\ Len(yielded) = Cardinality(present)
            /\ {yielded[i] : i \in DOMAIN yielded} = present

\* C39: map[k] = v and del map[k] leave the presence and the value of every
\* other key j as they were, also when the call runs _rehash and when it
\* leaves a tombstone.  (ref changes at the key of the call only.)
C39_OtherKeysKept ==
    [][\A j \in Keys :
          ref'[j] = ref[j] =>
              /\ ~hung'
              /\ Contains(table', j) = Contains(table, j)
              /\ GetItem(table', j) = GetItem(table, j)]_<<table, size, ref, hung>>

\* C38: push takes every item, None included: after any pushes and pops no
\* call has raised, len(stack) is the number of items pushed and not popped
\* and equals the effective size of the backing array, and peek returns the
\* last of them.
C38_PushTakesNone ==
    /\ ~raised
    /\ stack_size = Len(contents)
    /\ stack_size = effective_size
    /\ contents # <<>> => ArrayPeek = contents[Len(contents)]

\* n is a prime number.
IsPrime(n) == n >= 2 /\ \A d \in 2..(n - 1) : n % d # 0

\* The slots a probe with the given step visits from slot 0 in a table of n
\* slots.
Visited(n, step) == {(k * step) % n : k \in 0..(n - 1)}

\* C37: in every reachable state the number of slots of the table is prime,
\* and every probe step in 1 .. capacity - 2 visits all slots.
C37_PrimeCapacity ==
    /\ IsPrime(TableLen(table))
    /\ \A step \in 1..(TableLen(table) - 2) :
          Visited(TableLen(table), step) = 0..(TableLen(table) - 1)

\* C36: under enqueue while len < capacity and dequeue while len >= 1, len
\* is the number of enqueues minus the number of dequeues, the queue holds
\* the items enqueued and not yet dequeued, and front is the oldest of them.
C36_CircularFifo ==
    /\ cq.size = adds - removes
    /\ cq.size = Len(contents)
    /\ contents # <<>> => CircularFront(cq) = Head(contents)

\* C35: shift(start, stop, step) with start <= stop and the destination range
\* inside the array leaves slot i + step holding what slot i held for every i
\* in start..stop, every source slot that is no destination slot empty, and
\* every slot outside both ranges as it was.
C35_Shift ==
    last_call.name = "shift" =>
        LET start == last_call.index
            stop == last_call.item
            step == last_call.value
            old == last_call.before.items
            sources == start..stop
            destinations == (start + step)..(stop + step)
        IN  /\ last_call.outcome = "returns"
            /\ ArrayLen(items) = ArrayLen(old)
            /\ \A i \in sources : items[i + step] = old[i]
            /\ \A i \in sources \ destinations : items[i] = NoValue
            /\ \A i \in DOMAIN old \ (sources \cup destinations) : items[i] = old[i]

\* C33: LinkedDeque() gives an empty deque, and every add_left, add_right and
\* every remove_left, remove_right on a non-empty deque returns, after which
\* len and the items at both ends are those of the deque with the item added
\* at, or removed from, that end.
C33_DequeEnds ==
    /\ last_call.name = "LinkedDeque" => last_call.outcome = "returns"
    /\ last_call.name \in {"add_left", "add_right", "remove_left", "remove_right"} =>
          /\ last_call.outcome = "returns"
          /\ contents = DequeAfter(last_call.name, last_call.item, last_call.before)
          /\ ~DequeRaises(LinkedDequeNew, "len")
          /\ contents # <<>> =>
                /\ ~DequeRaises(LinkedDequeNew, "peek_left")
                /\ ~DequeRaises(LinkedDequeNew, "peek_right")

\* C32: on a BoundedVector with len < capacity, v[i] and del v[i] with i
\* outside 0 <= i < len raise and leave the vector as it was.
C32_StrayIndexRaises ==
    (/\ last_call.name \in {"get", "delete"}
     /\ ~InRange(last_call.before, last_call.index)
     /\ SeqLen(last_call.before) < Capacity(last_call.before)) =>
        /\ last_call.outcome = "raises"
        /\ seq_left = last_call.before

\* C31: S.index(x) returns the smallest position of x in S when x occurs in
\* S, and raises when it does not.
C31_Index ==
    last_call.name = "index" =>
        LET a == last_call.before[1]
            places == {p \in 0..(SeqLen(a) - 1) : SeqGetItem(a, p) = last_call.item}
        IN  IF places # {}
            THEN /\ last_call.outcome = "returns"
                 /\ last_call.value \in places
                 /\ \A p \in places : last_call.value <= p
            ELSE last_call.outcome = "raises"

\* C29: insert(i, x) with 0 <= i <= c into a vector of capacity c that holds c
\* items raises and leaves len and the item at every position as they were.
C29_FullInsertRaises ==
    (/\ last_call.name = "insert"
     /\ SeqLen(last_call.before) = Capacity(last_call.before)) =>
        /\ last_call.outcome = "raises"
        /\ SeqLen(seq_left) = SeqLen(last_call.before)
        /\ \A j \in 0..(SeqLen(seq_left) - 1) :
              SeqGetItem(seq_left, j) = SeqGetItem(last_call.before, j)

\* A full vector of capacity 3 was given insert(1, x), and the call raised.
C29_Witness ==
    /\ last_call.name = "insert"
    /\ last_call.index = 1
    /\ SeqLen(last_call.before) = 3
    /\ Capacity(last_call.before) = 3
    /\ last_call.outcome = "raises"

\* C30: under insert(i, x) with 0 <= i <= len < capacity and del v[i] with
\* 0 <= i < len every call returns, and after each step len(v) and v[j] for
\* 0 <= j < len are those of the reference list, in which insert puts x at i
\* and moves the items from i on one place right and delete moves the items
\* after i one place left.
C30_VectorRefinement ==
    /\ SeqLen(seq_left) = Len(contents)
    /\ \A j \in 0..(Len(contents) - 1) : SeqGetItem(seq_left, j) = contents[j + 1]
    /\ (\/ last_call.name = "delete"
        \/ (/\ last_call.name = "insert"
            /\ SeqLen(last_call.before) < Capacity(last_call.before))) =>
          last_call.outcome = "returns"

\* An item was deleted from the front of three different items.
C30_Witness ==
    /\ last_call.name = "delete"
    /\ last_call.index = 0
    /\ SeqLen(last_call.before) = 3
    /\ contents = <<1, 2>>
    /\ last_call.outcome = "returns"

\* C5: max_size is the capacity minus a third of the capacity.
C5_Threshold ==
    max_size = TableLen(table) - (TableLen(table) \div 3)

=============================================================================
